---- MODULE Spec2Model ----
(***************************************************************************)
(* Model of the mytools "Generate AI Context" tool                          *)
(* (src/src/mytools/tools/context_generator.py), of the helpers of         *)
(* src/src/mytools/utils.py it is specified against, and of the            *)
(* "Clean __pycache__" tool (src/src/mytools/tools/clean_pycache.py).      *)
(*                                                                         *)
(* Text is modelled as a sequence of one-character strings, so that        *)
(* matching, slicing and measuring are computed and not assumed.           *)
(* File-name matching follows fnmatch on a POSIX host (normcase is the     *)
(* identity there).                                                        *)
(***************************************************************************)
EXTENDS Integers, Sequences, FiniteSets, TLC

VARIABLES
    pc,               \* position of the component under analysis
    filename,         \* matcher: the file name being decided
    ignore_patterns,  \* matcher: the pattern set
    ignored,          \* matcher: result of FullContextTool._should_ignore_file
    utils_ignored,    \* matcher: result of utils.should_ignore
    file,             \* reader: the file on disk, [ok, text]
    max_size,         \* reader: the max_size argument
    reads,            \* reader: the results of the successive calls
    consumed,         \* reader: characters taken from the file by the last call
    fs,               \* selection: the project directory, node -> [name, text, ok]
    config,           \* selection: the config dict handed to the strategy
    mode,             \* selection: the strategy called ("smart", "all", "custom")
    walker,           \* selection: the strategy whose loop is running
    selected_paths,   \* custom: the accepted paths, in input order
    sel_idx,          \* custom: position of the outer loop in selected_paths
    stack,            \* os.walk: directories still to be yielded, next first
    cur_files,        \* os.walk: files of the yielded directory not yet visited
    content_str,      \* the accumulator, a sequence of pieces
    total_size,       \* the running total
    visited,          \* files handed to the reader so far, in order
    tree_structure,   \* the rendered tree, a sequence of lines
    project_name,     \* run: the name of the project directory
    answers,          \* run: what the user typed at the prompts
    defaults,         \* the class attributes DEFAULT_IGNORE_DIRS and _FILES
    events,           \* run: what has happened so far, in order
    final_output,     \* run: the formatted document, a sequence of lines
    save_content,     \* save step: the lines handed to f.write
    disk,             \* the files and directories the tool has an effect on
    deleted           \* clean-pycache: the count of deleted folders

matchVars == <<filename, ignore_patterns, ignored, utils_ignored>>
readVars == <<file, max_size, reads, consumed>>
walkVars == <<stack, cur_files>>
selVars == <<fs, config, mode, walker, selected_paths, sel_idx, walkVars,
             content_str, total_size, visited>>
runVars == <<project_name, answers, defaults, events, final_output, save_content, disk, deleted>>
vars == <<pc, matchVars, readVars, selVars, tree_structure, runVars>>

(***************************************************************************)
(* Bounds of the model.                                                    *)
(***************************************************************************)
MaxNameLen == 3
MaxPatLen == 3
MaxTextLen == 5
MaxSize == 2
MaxReads == 2
MaxTotal == 3
MaxPaths == 2
FileSizeLimit == 2

(***************************************************************************)
(* Characters and text helpers.                                            *)
(***************************************************************************)
\* Printable ASCII in code-point order (without the quote, backslash and
\* backtick characters): the order str comparison uses.
AsciiOrder ==
    << " ","!","#","$","%","&","'","(",")","*","+",",","-",".","/","0",
       "1","2","3","4","5","6","7","8","9",":",";","<","=",">","?","@",
       "A","B","C","D","E","F","G","H","I","J","K","L","M","N","O","P",
       "Q","R","S","T","U","V","W","X","Y","Z","[","]","^","_","a","b",
       "c","d","e","f","g","h","i","j","k","l","m","n","o","p","q","r",
       "s","t","u","v","w","x","y","z","{","|","}","~" >>

UpperChars ==
    <<"A","B","C","D","E","F","G","H","I","J","K","L","M","N","O","P","Q","R","S","T","U","V","W","X","Y","Z">>

LowerChars ==
    <<"a","b","c","d","e","f","g","h","i","j","k","l","m","n","o","p","q","r","s","t","u","v","w","x","y","z">>

Ord(c) == CHOOSE i \in 1..Len(AsciiOrder) : AsciiOrder[i] = c

\* str.lower() on one character.
LowerChar(c) ==
    IF \E i \in 1..Len(UpperChars) : UpperChars[i] = c
    THEN LowerChars[CHOOSE i \in 1..Len(UpperChars) : UpperChars[i] = c]
    ELSE c

Lower(s) == [i \in 1..Len(s) |-> LowerChar(s[i])]

\* s[:n] and s[n:] with Python's clamping (n >= 0).
Take(s, n) == SubSeq(s, 1, IF n < Len(s) THEN n ELSE Len(s))
Drop(s, n) == SubSeq(s, n + 1, Len(s))

StartsWith(s, p) == Len(p) <= Len(s) /\ SubSeq(s, 1, Len(p)) = p
EndsWith(s, p) == Len(p) <= Len(s) /\ SubSeq(s, Len(s) - Len(p) + 1, Len(s)) = p

WhiteSpace == {" ", "\n", "\t", "\r"}

\* bool(s.strip()): some character of s is not white space.
StripNonEmpty(s) == \E i \in 1..Len(s) : s[i] \notin WhiteSpace

SeqsUpTo(S, n) == UNION {[1..k -> S] : k \in 0..n}

(***************************************************************************)
(* Class attributes of FullContextTool.                                    *)
(***************************************************************************)
DEFAULT_IGNORE_DIRS ==
    { <<".","g","i","t">>,
      <<".","g","i","t","h","u","b">>,
      <<".","g","i","t","l","a","b">>,
      <<".","v","e","n","v">>,
      <<"v","e","n","v">>,
      <<"e","n","v">>,
      <<"v","i","r","t","u","a","l","e","n","v">>,
      <<"_","_","p","y","c","a","c","h","e","_","_">>,
      <<".","p","y","t","e","s","t","_","c","a","c","h","e">>,
      <<".","m","y","p","y","_","c","a","c","h","e">>,
      <<".","i","d","e","a">>,
      <<".","v","s","c","o","d","e">>,
      <<".","v","s">>,
      <<"n","o","d","e","_","m","o","d","u","l","e","s">>,
      <<"b","o","w","e","r","_","c","o","m","p","o","n","e","n","t","s">>,
      <<"d","i","s","t">>,
      <<"b","u","i","l","d">>,
      <<"o","u","t">>,
      <<"t","a","r","g","e","t">>,
      <<"i","n","s","t","a","n","c","e">>,
      <<".","e","x","t","r","a">>,
      <<"m","i","g","r","a","t","i","o","n","s">>,
      <<"l","o","g","s">>,
      <<"s","t","a","t","i","c","/","i","m","a","g","e","s">>,
      <<"m","e","d","i","a">>,
      <<"c","o","v","e","r","a","g","e">>,
      <<".","c","o","v","e","r","a","g","e">>,
      <<"s","i","t","e","-","p","a","c","k","a","g","e","s">>,
      <<".","e","g","g","s">>,
      <<"e","g","g","s">> }

DEFAULT_IGNORE_FILES ==
    { <<".","D","S","_","S","t","o","r","e">>,
      <<"T","h","u","m","b","s",".","d","b">>,
      <<"d","e","s","k","t","o","p",".","i","n","i">>,
      <<"p","a","c","k","a","g","e","-","l","o","c","k",".","j","s","o","n">>,
      <<"y","a","r","n",".","l","o","c","k">>,
      <<"p","n","p","m","-","l","o","c","k",".","y","a","m","l">>,
      <<"f","u","l","l","_","p","r","o","j","e","c","t","_","c","o","n","t","e","x","t",".","t","x","t">>,
      <<"a","i","_","c","o","n","t","e","x","t",".","t","x","t">>,
      <<"g","e","n","e","r","a","t","e","_","c","o","n","t","e","x","t",".","p","y">>,
      <<"d","b",".","s","q","l","i","t","e","3">>,
      <<"d","a","t","a","b","a","s","e",".","d","b">>,
      <<"*",".","d","b">>,
      <<".","e","n","v">>,
      <<".","e","n","v",".","l","o","c","a","l">>,
      <<".","e","n","v",".","*">>,
      <<".","a","n","t","i","g","r","a","v","i","t","y","i","g","n","o","r","e">>,
      <<".","g","i","t","i","g","n","o","r","e">>,
      <<"r","e","q","u","i","r","e","m","e","n","t","s",".","t","x","t">>,
      <<"r","e","q","u","i","r","e","m","e","n","t","s","-","d","e","v",".","t","x","t">>,
      <<"p","o","e","t","r","y",".","l","o","c","k">>,
      <<"P","i","p","f","i","l","e",".","l","o","c","k">>,
      <<"*",".","p","y","c">>,
      <<"*",".","p","y","o">>,
      <<"*",".","p","y","d">>,
      <<"*",".","s","o">>,
      <<"*",".","d","l","l">>,
      <<"*",".","d","y","l","i","b">>,
      <<"*",".","l","o","g">>,
      <<"*",".","t","m","p">>,
      <<"*",".","t","e","m","p">>,
      <<"*",".","c","a","c","h","e">>,
      <<"*",".","s","w","p">>,
      <<"*",".","s","w","o">> }

PRIORITY_EXTENSIONS ==
    { <<".","p","y">>,
      <<".","j","s">>,
      <<".","j","s","x">>,
      <<".","t","s">>,
      <<".","t","s","x">>,
      <<".","h","t","m","l">>,
      <<".","h","t","m">>,
      <<".","c","s","s">>,
      <<".","s","c","s","s">>,
      <<".","s","a","s","s">>,
      <<".","j","s","o","n">>,
      <<".","y","a","m","l">>,
      <<".","y","m","l">>,
      <<".","t","o","m","l">>,
      <<".","m","d">>,
      <<".","t","x","t">>,
      <<".","r","s","t">>,
      <<".","s","q","l">>,
      <<".","g","r","a","p","h","q","l">>,
      <<".","g","q","l">>,
      <<".","j","a","v","a">>,
      <<".","c","p","p">>,
      <<".","c">>,
      <<".","h">>,
      <<".","h","p","p">>,
      <<".","g","o">>,
      <<".","r","s">>,
      <<".","r","b">>,
      <<".","p","h","p">>,
      <<".","c","s">>,
      <<".","s","w","i","f","t">>,
      <<".","k","t">>,
      <<".","d","a","r","t">> }

important_patterns ==
    << <<"R","E","A","D","M","E","*">>,
       <<"r","e","a","d","m","e","*">>,
       <<"r","e","q","u","i","r","e","m","e","n","t","s","*",".","t","x","t">>,
       <<"p","y","p","r","o","j","e","c","t",".","t","o","m","l">>,
       <<"p","a","c","k","a","g","e",".","j","s","o","n">>,
       <<"s","e","t","u","p",".","p","y">>,
       <<"s","e","t","u","p",".","c","f","g">>,
       <<"*",".","p","y">>,
       <<"*",".","j","s">>,
       <<"*",".","t","s">>,
       <<"*",".","j","s","x">>,
       <<"*",".","t","s","x">>,
       <<"*",".","h","t","m","l">>,
       <<"*",".","c","s","s">>,
       <<"*",".","j","s","o","n">>,
       <<"*",".","y","a","m","l">>,
       <<"*",".","y","m","l">> >>

TruncationMarker ==
    <<"\n","\n",".",".",".","[","F","i","l","e"," ","t","r","u","n","c","a","t","e","d"," ","d","u","e"," ","t","o"," ","s","i","z","e"," ","l","i","m","i","t","]",".",".",".">>

ErrorPrefix ==
    <<"[","E","r","r","o","r"," ","r","e","a","d","i","n","g"," ","f","i","l","e",":"," ">>

\* Stands for str(e), the text of the exception raised by open() or read().
ErrorMessage == <<"e">>

(***************************************************************************)
(* fnmatch.fnmatch(name, pat): '*' any run, '?' any one character,         *)
(* '[seq]' / '[!seq]' a character class, anything else itself.  A '['      *)
(* with no closing ']' is a literal '['.                                   *)
(***************************************************************************)
\* Index of the ']' closing the class opened at pat[j], or 0 when unclosed.
ClassEnd(pat, j) ==
    LET n == Len(pat)
        s1 == IF j + 1 <= n /\ pat[j + 1] = "!" THEN j + 2 ELSE j + 1
        s2 == IF s1 <= n /\ pat[s1] = "]" THEN s1 + 1 ELSE s1
        closing == {k \in s2..n : pat[k] = "]"}
    IN  IF closing = {} THEN 0
        ELSE CHOOSE k \in closing : \A m \in closing : k <= m

InClass(c, pat, j, k) ==
    LET negated == pat[j + 1] = "!"
        first == IF negated THEN j + 2 ELSE j + 1
        members == {pat[m] : m \in first..(k - 1)}
    IN  IF negated THEN c \notin members ELSE c \in members

RECURSIVE MatchFrom(_, _, _, _)
MatchFrom(name, i, pat, j) ==
    IF j > Len(pat) THEN i > Len(name)
    ELSE IF pat[j] = "*" THEN
        \E k \in i..(Len(name) + 1) : MatchFrom(name, k, pat, j + 1)
    ELSE IF pat[j] = "?" THEN
        i <= Len(name) /\ MatchFrom(name, i + 1, pat, j + 1)
    ELSE IF pat[j] = "[" /\ ClassEnd(pat, j) # 0 THEN
        /\ i <= Len(name)
        /\ InClass(name[i], pat, j, ClassEnd(pat, j))
        /\ MatchFrom(name, i + 1, pat, ClassEnd(pat, j) + 1)
    ELSE
        i <= Len(name) /\ name[i] = pat[j] /\ MatchFrom(name, i + 1, pat, j + 1)

fnmatch(name, pat) == MatchFrom(name, 1, pat, 1)

(***************************************************************************)
(* FullContextTool._should_ignore_file                                     *)
(***************************************************************************)
\* A matcher that knows exact names only.
ShouldIgnoreFileExactOnly(name, patterns) == name \in patterns

\* for pattern in ignore_patterns: if fnmatch.fnmatch(filename, pattern)

ShouldIgnoreFile(name, patterns) ==
    \E pattern \in patterns : fnmatch(name, pattern)

(***************************************************************************)
(* utils.should_ignore: directories by name or leading dot, files by exact *)
(* name, '*'-prefixed suffix pattern or '*'-suffixed prefix pattern.       *)
(***************************************************************************)
should_ignore(name, path_is_dir, ignore_dirs, ignore_files) ==
    IF path_is_dir
    THEN name \in ignore_dirs \/ StartsWith(name, <<".">>)
    ELSE \/ name \in ignore_files
         \/ \E pattern \in ignore_files :
               \/ StartsWith(pattern, <<"*">>) /\ EndsWith(name, Drop(pattern, 1))
               \/ /\ EndsWith(pattern, <<"*">>)
                  /\ StartsWith(name, Take(pattern, Len(pattern) - 1))

(***************************************************************************)
(* os.path.splitext(name)[1] and FullContextTool._is_important_file        *)
(***************************************************************************)
SplitExt(name) ==
    LET dots == {i \in 1..Len(name) : name[i] = "."}
        dotIndex == IF dots = {} THEN 0
                    ELSE CHOOSE i \in dots : \A m \in dots : m <= i
    IN  IF dotIndex > 0 /\ \E i \in 1..(dotIndex - 1) : name[i] # "."
        THEN Drop(name, dotIndex - 1)
        ELSE <<>>

IsImportantFile(name, patterns) ==
    \/ \E i \in 1..Len(patterns) : fnmatch(name, patterns[i])
    \/ Lower(SplitExt(name)) \in PRIORITY_EXTENSIONS

(***************************************************************************)
(* FullContextTool._read_file_safe.  A result is [none, text]: none is     *)
(* Python's None, otherwise text is the returned string.                   *)
(***************************************************************************)
None == [none |-> TRUE, text |-> <<>>]
Str(s) == [none |-> FALSE, text |-> s]

\* "W" stands for a character outside ASCII, two bytes long in UTF-8.
WideChars == {"W"}

\* The size in bytes of the file whose decoded text is text.
RECURSIVE RawSize(_)
RawSize(text) ==
    IF text = <<>> THEN 0
    ELSE (IF Head(text) \in WideChars THEN 2 ELSE 1) + RawSize(Tail(text))

\* f.read(n): at most n characters from the start of the file.
FileRead(text, n) == Take(text, n)

\* A reader that also cuts a text of exactly max_size characters.
ReadFileSafeOffByOne(f, size) ==
    IF ~f.ok THEN Str(ErrorPrefix \o ErrorMessage \o <<"]">>)
    ELSE LET content == FileRead(f.text, size * 2)
             cut == IF Len(content) >= size
                    THEN Take(content, size) \o TruncationMarker
                    ELSE content
         IN  IF StripNonEmpty(cut) THEN Str(cut) ELSE None

\* content = f.read(max_size * 2); cut and marked when longer than max_size;
\* None when nothing but white space is left; the error string on failure.
ReadFileSafe(f, size) ==
    IF ~f.ok THEN Str(ErrorPrefix \o ErrorMessage \o <<"]">>)
    ELSE LET content == FileRead(f.text, size * 2)
             cut == IF Len(content) > size
                    THEN Take(content, size) \o TruncationMarker
                    ELSE content
         IN  IF StripNonEmpty(cut) THEN Str(cut) ELSE None

(***************************************************************************)
(* The project directory.  fs maps each node below the root to             *)
(* [parent, kind, name, text, ok]: the directory holding it, "dir" or      *)
(* "file", its name, a file's text, and whether it can be opened or        *)
(* listed.  os.scandir lists a directory in node order.                    *)
(***************************************************************************)
Root == 0
Nodes == DOMAIN fs
Parent(n) == fs[n].parent

IsDir(n) == n = Root \/ fs[n].kind = "dir"
IsFile(n) == n # Root /\ fs[n].kind = "file"
FileNodes == {n \in Nodes : IsFile(n)}

RECURSIVE IdSeq(_)
IdSeq(S) ==
    IF S = {} THEN <<>>
    ELSE LET m == CHOOSE x \in S : \A y \in S : x <= y
         IN  <<m>> \o IdSeq(S \ {m})

\* os.scandir(d): the entries of directory d.
ListDir(d) == IdSeq({n \in Nodes : Parent(n) = d})

\* os.path.relpath(path, project_path), as the sequence of path components.
RECURSIVE RelPath(_)
RelPath(n) == IF n = Root THEN <<>> ELSE Append(RelPath(Parent(n)), fs[n].name)

\* os.path.join(project_path, user_input) names an existing node.
Resolve(path) == {n \in Nodes : RelPath(n) = path}

(***************************************************************************)
(* Pieces of the accumulator.  A file piece stands for the block           *)
(* separator, "FILE: " rel_path, separator, content; a marker piece      *)
(* for the literal appended when the total size limit is hit (its leading  *)
(* warning sign left out).                                                 *)
(***************************************************************************)
FormatFileContent(rel_path, content) ==
    [kind |-> "file", rel_path |-> rel_path, content |-> content]

SmartMarker ==
    [kind |-> "marker", rel_path |-> <<>>,
     content |-> <<"\n\n[Total size limit reached. Some files omitted.]\n">>]

CustomMarker ==
    [kind |-> "marker", rel_path |-> <<>>,
     content |-> <<"\n\n[Total size limit reached.]\n">>]

(***************************************************************************)
(* Steps shared by the three strategies.                                   *)
(***************************************************************************)
\* dirs[:] = [d for d in dirs if d not in config['ignore_dirs']]
KeepDirs(dirs) ==
    LET Kept(d) == fs[d].name \notin config.ignore_dirs
    IN  SelectSeq(dirs, Kept)

\* One step of os.walk: the next directory is listed, its files become the
\* inner loop's work and its kept sub-directories are walked next.
WalkYield ==
    /\ stack # <<>>
    /\ cur_files = <<>>
    /\ LET top == Head(stack)
           entries == ListDir(top)
       IN  /\ cur_files' = SelectSeq(entries, IsFile)
           /\ stack' = KeepDirs(SelectSeq(entries, IsDir)) \o Tail(stack)

Content(f) == ReadFileSafe(fs[f], config.max_file_size)

\* A fallback to all selection.
FallbackWalkerAll == "all"

\* The strategy custom selection falls back to when no path was accepted.
FallbackWalker == "smart"

(***************************************************************************)
(* Calls of the three strategies (pc = "idle": nothing called yet).        *)
(***************************************************************************)
StartWalk(top) ==
    /\ content_str' = <<>>
    /\ total_size' = 0
    /\ stack' = <<top>>
    /\ cur_files' = <<>>
    /\ pc' = "walk"

CallSmart ==
    /\ pc = "idle"
    /\ mode' = "smart"
    /\ walker' = "smart"
    /\ StartWalk(Root)
    /\ UNCHANGED <<fs, config, selected_paths, sel_idx, visited, matchVars, readVars, tree_structure, runVars>>

CallAll ==
    /\ pc = "idle"
    /\ mode' = "all"
    /\ walker' = "all"
    /\ StartWalk(Root)
    /\ UNCHANGED <<fs, config, selected_paths, sel_idx, visited, matchVars, readVars, tree_structure, runVars>>

CallCustom ==
    /\ pc = "idle"
    /\ mode' = "custom"
    /\ walker' = "custom"
    /\ selected_paths' = <<>>
    /\ pc' = "input"
    /\ UNCHANGED <<fs, config, sel_idx, walkVars, content_str, total_size,
                   visited, matchVars, readVars, tree_structure, runVars>>

(***************************************************************************)
(* _get_smart_files_content and _get_all_files_content: the loop bodies.   *)
(***************************************************************************)
\* for root, dirs, files in os.walk(project_path): dirs[:] = ...
WalkDir ==
    /\ pc = "walk"
    /\ WalkYield
    /\ UNCHANGED <<pc, fs, config, mode, walker, selected_paths, sel_idx,
                   content_str, total_size, visited, matchVars, readVars, tree_structure, runVars>>

\* A filter without the importance test.
FilteredIgnoreOnly(f, smart) ==
    ShouldIgnoreFile(fs[f].name, config.ignore_files)

\* A file the filters reject: `continue` before the file is read.
Filtered(f, smart) ==
    \/ ShouldIgnoreFile(fs[f].name, config.ignore_files)
    \/ smart /\ ~IsImportantFile(fs[f].name, important_patterns)

\* A budget step that appends the block before it compares the total.
BudgetAppendThenCheck(f) ==
    LET content == Content(f)
    IN  /\ total_size' = total_size + Len(content.text)
        /\ content_str' =
               IF total_size + Len(content.text) > config.max_total_size
               THEN content_str \o <<FormatFileContent(RelPath(f), content.text),
                                     SmartMarker>>
               ELSE Append(content_str, FormatFileContent(RelPath(f), content.text))
        /\ pc' = IF total_size + Len(content.text) > config.max_total_size
                 THEN "done" ELSE pc

\* total_size += len(content); over the limit: return content_str + marker;
\* otherwise content_str += block.
BudgetStep(f) ==
    LET content == Content(f)
    IN  /\ total_size' = total_size + Len(content.text)
        /\ content_str' =
               IF total_size + Len(content.text) > config.max_total_size
               THEN Append(content_str, SmartMarker)
               ELSE Append(content_str, FormatFileContent(RelPath(f), content.text))
        /\ pc' = IF total_size + Len(content.text) > config.max_total_size
                 THEN "done" ELSE pc

\* One iteration of `for file in files` in smart (smart = TRUE) or all.
VisitFile(smart) ==
    /\ pc = "walk"
    /\ cur_files # <<>>
    /\ LET f == Head(cur_files)
       IN  /\ cur_files' = Tail(cur_files)
           /\ IF Filtered(f, smart)
              THEN UNCHANGED <<pc, content_str, total_size, visited>>
              ELSE /\ visited' = Append(visited, f)
                   /\ IF Content(f).none
                      THEN UNCHANGED <<pc, content_str, total_size>>
                      ELSE BudgetStep(f)
    /\ UNCHANGED <<fs, config, mode, walker, selected_paths, sel_idx, stack,
                   matchVars, readVars, tree_structure, runVars>>

SmartVisitFile == walker = "smart" /\ VisitFile(TRUE)

AllVisitFile == walker = "all" /\ VisitFile(FALSE)

\* os.walk is exhausted: return content_str.
WalkReturn ==
    /\ pc = "walk"
    /\ walker \in {"smart", "all"}
    /\ stack = <<>>
    /\ cur_files = <<>>
    /\ pc' = "done"
    /\ UNCHANGED <<selVars, matchVars, readVars, tree_structure, runVars>>

(***************************************************************************)
(* _get_custom_files_content.                                              *)
(***************************************************************************)
\* What the user types at "Enter path": done, tree, nothing, or a path.
Done == <<<<"d","o","n","e">>>>
Tree == <<<<"t","r","e","e">>>>
Missing == <<<<"n","o","p","e">>>>
UserInputs == {Done, Tree, <<>>, Missing} \cup {RelPath(n) : n \in {1, 3}}

\* 'done' with no accepted path: fall back to smart selection.
EnterDoneEmpty ==
    /\ pc = "input"
    /\ selected_paths = <<>>
    /\ walker' = FallbackWalker
    /\ StartWalk(Root)
    /\ UNCHANGED <<fs, config, mode, selected_paths, sel_idx, visited,
                   matchVars, readVars, tree_structure, runVars>>

\* 'done' with accepted paths: the loop over selected_paths starts.
EnterDone ==
    /\ pc = "input"
    /\ selected_paths # <<>>
    /\ content_str' = <<>>
    /\ total_size' = 0
    /\ sel_idx' = 1
    /\ pc' = "select"
    /\ UNCHANGED <<fs, config, mode, walker, selected_paths, walkVars, visited,
                   matchVars, readVars, tree_structure, runVars>>

\* 'tree', an empty line or a path that does not exist: nothing is accepted.
EnterRejected(user_input) ==
    /\ pc = "input"
    /\ user_input # Done
    /\ user_input \in {Tree, <<>>} \/ Resolve(user_input) = {}
    /\ UNCHANGED vars

\* A path that exists is appended to selected_paths.
EnterPath(user_input) ==
    /\ pc = "input"
    /\ user_input \notin {Done, Tree, <<>>}
    /\ Resolve(user_input) # {}
    /\ Len(selected_paths) < MaxPaths
    /\ selected_paths' =
           Append(selected_paths, CHOOSE n \in Resolve(user_input) : TRUE)
    /\ UNCHANGED <<pc, fs, config, mode, walker, sel_idx, walkVars, content_str,
                   total_size, visited, matchVars, readVars, tree_structure, runVars>>

\* if total_size > max_total_size: append the marker and break; otherwise
\* the outer loop goes to the next selected path.
CustomBudgetCheck(size, str) ==
    IF size > config.max_total_size
    THEN /\ content_str' = Append(str, CustomMarker)
         /\ pc' = "done"
         /\ UNCHANGED sel_idx
    ELSE /\ content_str' = str
         /\ pc' = "select"
         /\ sel_idx' = sel_idx + 1

\* The outer loop is exhausted: return content_str.
CustomReturn ==
    /\ pc = "select"
    /\ sel_idx > Len(selected_paths)
    /\ pc' = "done"
    /\ UNCHANGED <<selVars, matchVars, readVars, tree_structure, runVars>>

\* A selected file: read directly, appended, then the budget check.
CustomSelectFile ==
    /\ pc = "select"
    /\ sel_idx <= Len(selected_paths)
    /\ IsFile(selected_paths[sel_idx])
    /\ LET f == selected_paths[sel_idx]
           content == Content(f)
           size == IF content.none THEN total_size
                   ELSE total_size + Len(content.text)
           str == IF content.none THEN content_str
                  ELSE Append(content_str,
                              FormatFileContent(RelPath(f), content.text))
       IN  /\ visited' = Append(visited, f)
           /\ total_size' = size
           /\ CustomBudgetCheck(size, str)
    /\ UNCHANGED <<fs, config, mode, walker, selected_paths, walkVars,
                   matchVars, readVars, tree_structure, runVars>>

\* A selected directory: os.walk starts at it.
CustomSelectDir ==
    /\ pc = "select"
    /\ sel_idx <= Len(selected_paths)
    /\ IsDir(selected_paths[sel_idx])
    /\ stack' = <<selected_paths[sel_idx]>>
    /\ cur_files' = <<>>
    /\ pc' = "custom_walk"
    /\ UNCHANGED <<fs, config, mode, walker, selected_paths, sel_idx,
                   content_str, total_size, visited, matchVars, readVars, tree_structure, runVars>>

CustomWalkDir ==
    /\ pc = "custom_walk"
    /\ WalkYield
    /\ UNCHANGED <<pc, fs, config, mode, walker, selected_paths, sel_idx,
                   content_str, total_size, visited, matchVars, readVars, tree_structure, runVars>>

\* One iteration of `for file in files` under a selected directory: the
\* content is appended and the total is not compared here.
CustomVisitFile ==
    /\ pc = "custom_walk"
    /\ cur_files # <<>>
    /\ LET f == Head(cur_files)
           content == Content(f)
       IN  /\ cur_files' = Tail(cur_files)
           /\ IF Filtered(f, FALSE)
              THEN UNCHANGED <<content_str, total_size, visited>>
              ELSE /\ visited' = Append(visited, f)
                   /\ IF content.none
                      THEN UNCHANGED <<content_str, total_size>>
                      ELSE /\ total_size' = total_size + Len(content.text)
                           /\ content_str' =
                                  Append(content_str,
                                         FormatFileContent(RelPath(f), content.text))
    /\ UNCHANGED <<pc, fs, config, mode, walker, selected_paths, sel_idx, stack,
                   matchVars, readVars, tree_structure, runVars>>

\* The walk of the selected directory is exhausted: the budget check.
CustomWalkEnd ==
    /\ pc = "custom_walk"
    /\ stack = <<>>
    /\ cur_files = <<>>
    /\ CustomBudgetCheck(total_size, content_str)
    /\ UNCHANGED <<fs, config, mode, walker, selected_paths, walkVars,
                   total_size, visited, matchVars, readVars, tree_structure, runVars>>

(***************************************************************************)
(* FullContextTool._generate_tree.  A line of the tree is a record: an     *)
(* entry line is prefix, connector ("tee" for the branching connector,     *)
(* "last" for the closing one), icon and name; node tells which entry of   *)
(* the directory the line was rendered from.  The prefix is the sequence   *)
(* of indentation units ("bar" under a branching entry, "blank" under a    *)
(* closing one).                                                           *)
(***************************************************************************)
max_depth == 5

\* a < b for two names, as str compares them.
LexLess(a, b) ==
    \E i \in 1..(Len(a) + 1) :
        /\ \A k \in 1..(i - 1) : k <= Len(b) /\ a[k] = b[k]
        /\ i <= Len(b)
        /\ i > Len(a) \/ Ord(a[i]) < Ord(b[i])

\* A listing left in directory order.
SortedByNode(S) == IdSeq(S)

\* sorted(path.iterdir())
RECURSIVE SortedByName(_)
SortedByName(S) ==
    IF S = {} THEN <<>>
    ELSE LET m == CHOOSE x \in S :
                      \A y \in S \ {x} : LexLess(fs[x].name, fs[y].name)
         IN  <<m>> \o SortedByName(S \ {m})

HeaderLine ==
    [kind |-> "header", prefix |-> <<>>, connector |-> "none", icon |-> "none",
     name |-> <<>>, node |-> Root]

LimitLine(prefix) ==
    [kind |-> "limit", prefix |-> prefix, connector |-> "last", icon |-> "none",
     name |-> <<>>, node |-> Root]

EntryLine(prefix, is_last, item) ==
    [kind |-> "entry", prefix |-> prefix,
     connector |-> IF is_last THEN "last" ELSE "tee",
     icon |-> IF IsDir(item) THEN "dir" ELSE "file",
     name |-> fs[item].name, node |-> item]

\* A directory filter that forgets ignore_dirs.
TreeDirsKeepIgnored(items, ignore_dirs) ==
    LET Shown(i) == IsDir(i) /\ ~StartsWith(fs[i].name, <<".">>)
    IN  SelectSeq(items, Shown)

\* dirs = [i for i in items if i.is_dir() and not i.name.startswith('.')
\*         and i.name not in ignore_dirs]
TreeDirs(items, ignore_dirs) ==
    LET Shown(i) == /\ IsDir(i)
                    /\ ~StartsWith(fs[i].name, <<".">>)
                    /\ fs[i].name \notin ignore_dirs
    IN  SelectSeq(items, Shown)

\* files = [i for i in items if i.is_file() and not i.name.startswith('.')]
TreeFiles(items) ==
    LET Shown(i) == IsFile(i) /\ ~StartsWith(fs[i].name, <<".">>)
    IN  SelectSeq(items, Shown)

RECURSIVE TreeRecursive(_, _, _, _, _)
RECURSIVE TreeItems(_, _, _, _, _, _)

\* The body of `for idx, item in enumerate(all_items)`, from idx on.
TreeItems(all_items, idx, prefix, depth, limit, ignore_dirs) ==
    IF idx > Len(all_items) THEN <<>>
    ELSE LET item == all_items[idx]
             is_last == idx = Len(all_items)
             extension == IF is_last THEN "blank" ELSE "bar"
         IN  <<EntryLine(prefix, is_last, item)>>
             \o (IF IsDir(item)
                 THEN TreeRecursive(item, Append(prefix, extension), depth + 1,
                                    limit, ignore_dirs)
                 ELSE <<>>)
             \o TreeItems(all_items, idx + 1, prefix, depth, limit, ignore_dirs)

\* A renderer that lists a directory whether or not it can be read.
TreeRecursiveListsAll(path, prefix, depth, limit, ignore_dirs) ==
    IF depth > limit THEN <<LimitLine(prefix)>>
    ELSE LET items == SortedByName({n \in Nodes : Parent(n) = path})
             all_items == TreeDirs(items, ignore_dirs) \o TreeFiles(items)
         IN  TreeItems(all_items, 1, prefix, depth, limit, ignore_dirs)

\* A renderer that stops one level early.
TreeRecursiveEarlyLimit(path, prefix, depth, limit, ignore_dirs) ==
    IF depth >= limit THEN <<LimitLine(prefix)>>
    ELSE IF path # Root /\ ~fs[path].ok THEN <<>>
    ELSE LET items == SortedByName({n \in Nodes : Parent(n) = path})
             all_items == TreeDirs(items, ignore_dirs) \o TreeFiles(items)
         IN  TreeItems(all_items, 1, prefix, depth, limit, ignore_dirs)

\* _tree_recursive(path, prefix, depth, max_depth)
TreeRecursive(path, prefix, depth, limit, ignore_dirs) ==
    IF depth > limit THEN <<LimitLine(prefix)>>
    ELSE IF path # Root /\ ~fs[path].ok THEN <<>>
    ELSE LET items == SortedByName({n \in Nodes : Parent(n) = path})
             all_items == TreeDirs(items, ignore_dirs) \o TreeFiles(items)
         IN  TreeItems(all_items, 1, prefix, depth, limit, ignore_dirs)

GenerateTree(start_path, ignore_dirs) ==
    <<HeaderLine>> \o TreeRecursive(start_path, <<>>, 0, max_depth, ignore_dirs)

(***************************************************************************)
(* Values of the variables a specification does not use.                   *)
(***************************************************************************)
MatchIdle ==
    /\ filename = <<>>
    /\ ignore_patterns = {}
    /\ ignored = FALSE
    /\ utils_ignored = FALSE

ReadIdle ==
    /\ file = [ok |-> TRUE, text |-> <<>>]
    /\ max_size = 1
    /\ reads = <<>>
    /\ consumed = 0

SelIdle ==
    /\ fs = <<>>
    /\ config = [ignore_dirs |-> {}, ignore_files |-> {},
                 max_file_size |-> 1, max_total_size |-> 1]
    /\ mode = "none"
    /\ walker = "none"
    /\ selected_paths = <<>>
    /\ sel_idx = 0
    /\ stack = <<>>
    /\ cur_files = <<>>
    /\ content_str = <<>>
    /\ total_size = 0
    /\ visited = <<>>

TreeIdle == tree_structure = <<>>

NoAnswers ==
    [mode_choice |-> "none", custom_ignore |-> <<>>, custom_files |-> <<>>,
     choice |-> "none", filename |-> <<>>, section |-> "none", confirm |-> <<>>,
     yes |-> "absent"]

RunIdle ==
    /\ project_name = <<>>
    /\ answers = NoAnswers
    /\ defaults = [ignore_dirs |-> DEFAULT_IGNORE_DIRS,
                   ignore_files |-> DEFAULT_IGNORE_FILES]
    /\ events = <<>>
    /\ final_output = <<>>
    /\ save_content = <<>>
    /\ disk = {}
    /\ deleted = 0

(***************************************************************************)
(* SpecMatch: the ignore matcher as a function of a name and a pattern     *)
(* set.  Names are over {a, b}; patterns use the wildcard characters       *)
(* '*' and '?' anywhere, and character classes.                            *)
(***************************************************************************)
MatchNames == SeqsUpTo({"a", "b"}, MaxNameLen)

ClassPatterns ==
    { <<"[","a","]">>, <<"[","!","a","]">>, <<"[","a","b","]">>, <<"[","a">>,
      <<"*","b">>, <<"b","*">>, <<"b">> }

PatternPool == SeqsUpTo({"a", "*", "?"}, MaxPatLen) \cup ClassPatterns

InitMatch ==
    /\ pc = "match"
    /\ filename \in MatchNames
    /\ ignore_patterns \in {{p, q} : p \in PatternPool, q \in PatternPool}
    /\ ignored = FALSE
    /\ utils_ignored = FALSE
    /\ ReadIdle
    /\ SelIdle
    /\ TreeIdle
    /\ RunIdle

\* The context tool's matcher and the utils matcher asked about the same file.
Decide ==
    /\ pc = "match"
    /\ ignored' = ShouldIgnoreFile(filename, ignore_patterns)
    /\ utils_ignored' =
           should_ignore(filename, FALSE, DEFAULT_IGNORE_DIRS, ignore_patterns)
    /\ pc' = "matched"
    /\ UNCHANGED <<filename, ignore_patterns, readVars, selVars, tree_structure, runVars>>

NextMatch == Decide

SpecMatch == InitMatch /\ [][NextMatch]_vars

(***************************************************************************)
(* SpecRead: the file reader called on one file, MaxReads times.           *)
(***************************************************************************)
Texts == SeqsUpTo({"x", " ", "W"}, MaxTextLen)

InitRead ==
    /\ pc = "read"
    /\ file \in [ok : BOOLEAN, text : Texts]
    /\ max_size \in 1..MaxSize
    /\ reads = <<>>
    /\ consumed = 0
    /\ MatchIdle
    /\ SelIdle
    /\ TreeIdle
    /\ RunIdle

CallReadFileSafe ==
    /\ pc = "read"
    /\ Len(reads) < MaxReads
    /\ reads' = Append(reads, ReadFileSafe(file, max_size))
    /\ consumed' = IF file.ok THEN Len(FileRead(file.text, max_size * 2)) ELSE 0
    /\ UNCHANGED <<pc, file, max_size, matchVars, selVars, tree_structure, runVars>>

NextRead == CallReadFileSafe

SpecRead == InitRead /\ [][NextRead]_vars

(***************************************************************************)
(* Spec: one call of a selection strategy on a project directory.          *)
(***************************************************************************)
File(parent, name, text) ==
    [parent |-> parent, kind |-> "file", name |-> name, text |-> text, ok |-> TRUE]
Unreadable(parent, name) ==
    [parent |-> parent, kind |-> "file", name |-> name, text |-> <<>>, ok |-> FALSE]
Dir(parent, name) ==
    [parent |-> parent, kind |-> "dir", name |-> name, text |-> <<>>, ok |-> TRUE]

\* The root holds files 1 and 2 and directory 3, which holds file 4 and
\* directory 5, which holds file 6.  The choices for each node: important,
\* ignored, unimportant and hidden names; short, blank, over-long and
\* unreadable contents; plain, ignored and hidden directories.
NodeChoices ==
    << { File(Root, <<"a",".","p","y">>, <<"x","x">>),
         File(Root, <<"x",".","l","o","g">>, <<"x">>),
         File(Root, <<"R",".","M","D">>, <<"x","x","x">>) },
       { File(Root, <<"b",".","j","s">>, <<"x">>),
         File(Root, <<"n">>, <<"x">>),
         Unreadable(Root, <<"b",".","j","s">>) },
       { Dir(Root, <<"s">>), Dir(Root, <<"b","u","i","l","d">>), Dir(Root, <<".","h">>) },
       { File(3, <<"a",".","p","y">>, <<"x","x">>),
         File(3, <<"a",".","p","y">>, <<" ">>),
         File(3, <<"x",".","l","o","g">>, <<"x">>) },
       { Dir(3, <<"t">>), Dir(3, <<".","g","i","t">>) },
       { File(5, <<"c",".","t","s">>, <<"x","x">>),
         File(5, <<".","e",".","p","y">>, <<"x","x">>) } >>

\* Every way of picking one choice per node, for the first k nodes.
RECURSIVE Picks(_, _)
Picks(choices, k) ==
    IF k = 0 THEN {<<>>}
    ELSE {Append(t, c) : t \in Picks(choices, k - 1), c \in choices[k]}

TreesOf(choices) == Picks(choices, Len(choices))

Trees == TreesOf(NodeChoices)

\* Directory names the user adds to DEFAULT_IGNORE_DIRS.
UserIgnoreDirs == {{}, {<<"s">>}}

\* The total limits: the small ones and one that leaves room for a
\* truncated file (FileSizeLimit is the per-file limit).
TotalLimits == (1..MaxTotal) \cup {FileSizeLimit + Len(TruncationMarker) + MaxTotal}

Configs ==
    {[ignore_dirs |-> DEFAULT_IGNORE_DIRS \cup d,
      ignore_files |-> DEFAULT_IGNORE_FILES,
      max_file_size |-> FileSizeLimit,
      max_total_size |-> m] : d \in UserIgnoreDirs, m \in TotalLimits}

Init ==
    /\ pc = "idle"
    /\ fs \in Trees
    /\ config \in Configs
    /\ mode = "none"
    /\ walker = "none"
    /\ selected_paths = <<>>
    /\ sel_idx = 0
    /\ stack = <<>>
    /\ cur_files = <<>>
    /\ content_str = <<>>
    /\ total_size = 0
    /\ visited = <<>>
    /\ MatchIdle
    /\ ReadIdle
    /\ TreeIdle
    /\ RunIdle

Next ==
    \/ CallSmart
    \/ CallAll
    \/ CallCustom
    \/ WalkDir
    \/ SmartVisitFile
    \/ AllVisitFile
    \/ WalkReturn
    \/ EnterDoneEmpty
    \/ EnterDone
    \/ \E user_input \in UserInputs : EnterRejected(user_input)
    \/ \E user_input \in UserInputs : EnterPath(user_input)
    \/ CustomReturn
    \/ CustomSelectFile
    \/ CustomSelectDir
    \/ CustomWalkDir
    \/ CustomVisitFile
    \/ CustomWalkEnd

Spec == Init /\ [][Next]_vars

(***************************************************************************)
(* SpecTree: the tree renderer called on a project directory.  The root    *)
(* holds files 1 and 2 and directories 3, 11 and 12; 3 holds file 4 and    *)
(* the chain of directories 5, 6, 7, 8, 9, the last holding file 10, so    *)
(* that directory 9 lies beyond the depth limit.                           *)
(***************************************************************************)
TreeNodeChoices ==
    << { File(Root, <<"a",".","p","y">>, <<"x">>),
         File(Root, <<".","e","n","v">>, <<"x">>),
         File(Root, <<"z">>, <<"x">>) },
       { File(Root, <<"b",".","j","s">>, <<"x">>), File(Root, <<"B">>, <<"x">>) },
       { Dir(Root, <<"s">>), Dir(Root, <<"b","u","i","l","d">>), Dir(Root, <<".","h">>) },
       { File(3, <<"a",".","p","y">>, <<"x">>), File(3, <<".","x">>, <<"x">>) },
       { Dir(3, <<"t">>), Dir(3, <<"o","u","t">>) },
       { Dir(5, <<"d">>) },
       { Dir(6, <<"d">>) },
       { Dir(7, <<"d">>), Dir(7, <<".","d">>) },
       { Dir(8, <<"d">>) },
       { File(9, <<"f">>, <<"x">>) },
       { Dir(Root, <<"l","i","b">>), Dir(Root, <<"e","n","v">>), Dir(Root, <<"a">>) },
       { Dir(Root, <<".","c">>), Dir(Root, <<"m">>) } >>

InitTree ==
    /\ pc = "tree"
    /\ fs \in TreesOf(TreeNodeChoices)
    /\ config \in {c \in Configs : c.max_total_size = 1}
    /\ mode = "none"
    /\ walker = "none"
    /\ selected_paths = <<>>
    /\ sel_idx = 0
    /\ stack = <<>>
    /\ cur_files = <<>>
    /\ content_str = <<>>
    /\ total_size = 0
    /\ visited = <<>>
    /\ tree_structure = <<>>
    /\ MatchIdle
    /\ ReadIdle
    /\ RunIdle

CallGenerateTree ==
    /\ pc = "tree"
    /\ tree_structure' = GenerateTree(Root, config.ignore_dirs)
    /\ pc' = "tree_done"
    /\ UNCHANGED <<matchVars, readVars, selVars, runVars>>

NextTree == CallGenerateTree

SpecTree == InitTree /\ [][NextTree]_vars

(***************************************************************************)
(* SpecTreePerm: the tree renderer on a project directory with             *)
(* directories whose listing fails (path.iterdir() raises PermissionError  *)
(* or OSError).  The root holds file 1 and directories 2 and 6; 2 holds    *)
(* file 3 and directory 4, which holds file 5; 6 holds file 7.             *)
(***************************************************************************)
LockedDir(parent, name) ==
    [parent |-> parent, kind |-> "dir", name |-> name, text |-> <<>>, ok |-> FALSE]

PermNodeChoices ==
    << { File(Root, <<"a",".","p","y">>, <<"x">>), File(Root, <<"z">>, <<"x">>) },
       { Dir(Root, <<"s">>), LockedDir(Root, <<"s">>),
         LockedDir(Root, <<"b","u","i","l","d">>), LockedDir(Root, <<".","h">>) },
       { File(2, <<"a",".","p","y">>, <<"x">>), File(2, <<".","x">>, <<"x">>) },
       { Dir(2, <<"t">>), LockedDir(2, <<"t">>) },
       { File(4, <<"f">>, <<"x">>), File(4, <<"g">>, <<"x">>) },
       { Dir(Root, <<"m">>), LockedDir(Root, <<"m">>), LockedDir(Root, <<"z","z">>) },
       { File(6, <<"k">>, <<"x">>) } >>

InitTreePerm ==
    /\ pc = "tree"
    /\ fs \in TreesOf(PermNodeChoices)
    /\ config \in {c \in Configs : c.max_total_size = 1}
    /\ mode = "none"
    /\ walker = "none"
    /\ selected_paths = <<>>
    /\ sel_idx = 0
    /\ stack = <<>>
    /\ cur_files = <<>>
    /\ content_str = <<>>
    /\ total_size = 0
    /\ visited = <<>>
    /\ tree_structure = <<>>
    /\ MatchIdle
    /\ ReadIdle
    /\ RunIdle

SpecTreePerm == InitTreePerm /\ [][NextTree]_vars

(***************************************************************************)
(* FullContextTool._get_user_config.  What the user types is a sequence of *)
(* characters.                                                             *)
(***************************************************************************)
\* s.strip(): s without its leading and its trailing white space.
RECURSIVE LStrip(_)
LStrip(s) == IF s # <<>> /\ Head(s) \in WhiteSpace THEN LStrip(Tail(s)) ELSE s

RECURSIVE RStrip(_)
RStrip(s) ==
    IF s # <<>> /\ s[Len(s)] \in WhiteSpace
    THEN RStrip(SubSeq(s, 1, Len(s) - 1))
    ELSE s

Strip(s) == RStrip(LStrip(s))

\* s.split(sep): the pieces of s between the occurrences of character sep.
RECURSIVE Split(_, _)
Split(s, sep) ==
    LET at == {i \in 1..Len(s) : s[i] = sep}
    IN  IF at = {} THEN <<s>>
        ELSE LET i == CHOOSE x \in at : \A y \in at : x <= y
             IN  <<SubSeq(s, 1, i - 1)>> \o Split(SubSeq(s, i + 1, Len(s)), sep)

SeqRange(s) == {s[i] : i \in 1..Len(s)}

\* Additions that keep the white space around each token.
UserAdditionsNoStrip(typed) ==
    IF typed = <<>> THEN {}
    ELSE {d : d \in {p \in SeqRange(Split(typed, ",")) : Strip(p) # <<>>}}

\* [d.strip() for d in typed.split(',') if d.strip()], skipped for an empty
\* answer.
UserAdditions(typed) ==
    IF typed = <<>> THEN {}
    ELSE {Strip(d) : d \in {p \in SeqRange(Split(typed, ",")) : Strip(p) # <<>>}}

\* mode_map = {'1': 'smart', '2': 'all', '3': 'custom'}
mode_map == ("1" :> "smart") @@ ("2" :> "all") @@ ("3" :> "custom")

\* Answers to "Additional dirs to ignore" and "Additional files to ignore".
IgnoreDirAnswers ==
    { <<>>,
      <<" ">>,
      <<"s">>,
      <<" ","s"," ",",",",","n"," ","m",","," ">> }

IgnoreFileAnswers ==
    { <<>>,
      <<"n",","," ","*",".","t","s">> }

\* The body of _get_user_config for one triple of answers: ignore_dirs and
\* ignore_files are fresh sets made from the class attributes.
UserConfig(mode_choice, custom_ignore, custom_files) ==
    [selection_mode |-> mode_map[mode_choice],
     ignore_dirs |-> defaults.ignore_dirs \cup UserAdditions(custom_ignore),
     ignore_files |-> defaults.ignore_files \cup UserAdditions(custom_files),
     max_file_size |-> 20000,
     max_total_size |-> 200000]

GetUserConfig ==
    /\ pc = "run"
    /\ \E mode_choice \in DOMAIN mode_map,
          custom_ignore \in IgnoreDirAnswers,
          custom_files \in IgnoreFileAnswers :
           /\ answers' = [answers EXCEPT !.mode_choice = mode_choice,
                                         !.custom_ignore = custom_ignore,
                                         !.custom_files = custom_files]
           /\ config' = UserConfig(mode_choice, custom_ignore, custom_files)
    /\ events' = Append(events, "configure")
    /\ pc' = "configured"
    /\ UNCHANGED <<fs, mode, walker, selected_paths, sel_idx, walkVars, content_str,
                   total_size, visited, matchVars, readVars, tree_structure,
                   project_name, defaults, final_output, save_content, disk, deleted>>

(***************************************************************************)
(* Text as written to a file.  A text is the sequence of its lines, what   *)
(* text.split('\n') gives; a line is a sequence of units, each a           *)
(* character or a literal of the source kept whole (a marker, the          *)
(* separator, an icon).  The empty text is one empty line.                 *)
(***************************************************************************)
\* a + b on texts: the last line of a runs on into the first line of b.
Cat(a, b) ==
    SubSeq(a, 1, Len(a) - 1) \o <<a[Len(a)] \o b[1]>> \o Tail(b)

\* The text of a string of characters.
TextOf(chars) == Split(chars, "\n")

\* "sub in line", for a literal kept whole.
Contains(line, sub) == \E i \in 1..Len(line) : line[i] = sub

\* separator = "=" * 60
Separator == "============================================================"

StructureMarker == "PROJECT STRUCTURE:"
ContentsMarker == "FILE CONTENTS:"
GuidanceMarker == "FOR AI ASSISTANT:"

\* A relative path as a string: its components joined by the separator.
RECURSIVE JoinPath(_)
JoinPath(path) ==
    IF path = <<>> THEN <<>>
    ELSE IF Len(path) = 1 THEN path[1]
    ELSE path[1] \o <<"/">> \o JoinPath(Tail(path))

\* The string a piece of the accumulator stands for:
\* f"\n{separator}\n<icon> FILE: {rel_path}\n{separator}\n{content}\n" for a
\* file, the literal for a marker.
PieceText(piece) ==
    IF piece.kind = "marker"
    THEN << <<>>, <<>>, <<"[Total size limit reached]">>, <<>> >>
    ELSE Cat(<< <<>>,
                <<Separator>>,
                <<"file icon", "FILE: ">> \o JoinPath(piece.rel_path),
                <<Separator>>,
                <<>> >>,
             Cat(TextOf(piece.content), << <<>>, <<>> >>))

\* The accumulator as one string.
RECURSIVE ContentsText(_)
ContentsText(pieces) ==
    IF pieces = <<>> THEN << <<>> >>
    ELSE Cat(PieceText(Head(pieces)), ContentsText(Tail(pieces)))

\* A line of the rendered tree as a line of text:
\* f"{prefix}{connector}{icon}{item.name}", prefix + "<connector>[depth
\* limit reached]" and "Project Tree:".
TreeLineText(l) ==
    IF l.kind = "header" THEN <<"Project Tree:">>
    ELSE IF l.kind = "limit" THEN l.prefix \o <<l.connector, "[depth limit reached]">>
    ELSE l.prefix \o <<l.connector, l.icon>> \o l.name

\* The rendered tree as one string: every line ends with a newline.
TreeText(tree) == [i \in 1..Len(tree) |-> TreeLineText(tree[i])] \o << <<>> >>

\* str.upper() on the selection modes.
Upper == ("smart" :> "SMART") @@ ("all" :> "ALL") @@ ("custom" :> "CUSTOM")

\* A formatter that ends the document with the structure section.
FormatOutputStructureOnly(name, tree, contents, cfg) ==
    Cat(<< <<"robot icon", "PROJECT CONTEXT FOR AI ASSISTANCE">>,
           <<Separator>>,
           <<"PROJECT: ">> \o name,
           <<Separator>>,
           <<>>,
           <<"folder icon", StructureMarker>>,
           <<>> >>,
        TreeText(tree))

\* FullContextTool._format_output
FormatOutput(name, tree, contents, cfg) ==
    Cat(<< <<"robot icon", "PROJECT CONTEXT FOR AI ASSISTANCE">>,
           <<Separator>>,
           <<"PROJECT: ">> \o name,
           <<"SELECTION MODE: ", Upper[cfg.selection_mode]>>,
           <<"GENERATED: ", "timestamp">>,
           <<Separator>>,
           <<>>,
           <<"folder icon", StructureMarker>>,
           <<>> >>,
    Cat(TreeText(tree),
    Cat(<< <<>>,
           <<>>,
           <<Separator>>,
           <<"memo icon", ContentsMarker>>,
           <<>> >>,
    Cat(ContentsText(contents),
        << <<>>,
           <<>>,
           <<Separator>>,
           <<"bulb icon", GuidanceMarker>>,
           <<"This is the complete context of the project. Please analyze the structure">>,
           <<"and code to provide accurate assistance. Key files include configuration">>,
           <<"files, source code, and documentation.">>,
           <<>>,
           <<"When responding, reference specific files and paths from the structure above.">>,
           <<>> >>))))

\* FullContextTool._create_ai_prompt_template
CreateAiPromptTemplate(context) ==
    Cat(<< <<"You are an expert developer assistant. Below is the complete context of a project. Please analyze it thoroughly and provide accurate assistance.">>,
           <<>>,
           <<"PROJECT CONTEXT:">>,
           <<>> >>,
    Cat(context,
        << <<>>,
           <<>>,
           <<"YOUR TASK:">>,
           <<"Based on the project structure and code above, please:">>,
           <<"1. Understand the project architecture and main components.">>,
           <<"2. Identify key files, dependencies, and configuration.">>,
           <<"3. Provide specific, actionable advice or code.">>,
           <<>>,
           <<"My specific request is: [DESCRIBE WHAT YOU NEED HELP WITH HERE]">>,
           <<>>,
           <<"Please reference specific files and paths from the project structure in your response. Be detailed but concise.">> >>))

\* next(i for i, line in enumerate(lines) if sub in line): the position of
\* the first line holding sub from position from on, 0 when there is none.
FirstLine(lines, sub, from) ==
    LET at == {i \in from..Len(lines) : Contains(lines[i], sub)}
    IN  IF at = {} THEN 0 ELSE CHOOSE i \in at : \A j \in at : i <= j

\* lines[start:start+end+1], end the offset in lines[start+1:] of the first
\* line holding the separator, len(lines) when there is none.
StructureSlice(lines) ==
    LET start == FirstLine(lines, StructureMarker, 1)
        sep == FirstLine(lines, Separator, start + 1)
    IN  SubSeq(lines, start, IF sep = 0 THEN Len(lines) ELSE sep - 1)

\* lines[start:]
ContentsSlice(lines) ==
    SubSeq(lines, FirstLine(lines, ContentsMarker, 1), Len(lines))

(***************************************************************************)
(* FullContextTool._handle_save_options.  disk holds the files written,    *)
(* each [name, content].                                                   *)
(***************************************************************************)
\* default_filename = f"{project_name}_context.txt"
DefaultFilename(name) == name \o <<"_","c","o","n","t","e","x","t",".","t","x","t">>

\* What the user answers to "Enter filename": Enter for the default, or a name.
Filenames(name) == {DefaultFilename(name), <<"o",".","t","x","t">>}

\* The section prompt is shown for choice 2 only.
SectionsAsked(choice) == IF choice = "2" THEN {"1", "2"} ELSE {"none"}

\* open(filename, 'w') and f.write(save_content): both succeed, open raises,
\* or write raises after open has emptied the file.
WriteOutcomes == {"ok", "open_fails", "write_fails"}

\* A save step that writes whatever the choice.
SaveWritesAlways(choice) == TRUE

\* if choice == '4': return
SaveWrites(choice) == choice # "4"

\* save_content for a choice and a section.
SaveContent(choice, section, content) ==
    IF choice = "1" THEN content
    ELSE IF choice = "2"
         THEN IF section = "1" THEN StructureSlice(content) ELSE ContentsSlice(content)
         ELSE CreateAiPromptTemplate(content)

\* next(...) finds no line holding the marker and raises StopIteration,
\* outside the try block.
SliceRaises(choice, section, content) ==
    /\ choice = "2"
    /\ FirstLine(content, IF section = "1" THEN StructureMarker ELSE ContentsMarker, 1) = 0

\* The file after open(filename, 'w') and f.write(text).
WriteFile(files, name, text) ==
    {f \in files : f.name # name} \cup {[name |-> name, content |-> text]}

\* A save step that lets the exception of a failed write escape.
AfterWriteErrorRaises == "raised"

\* except Exception as e: console.print(...): the handler returns.
AfterWriteError == "pause"

HandleSaveOptions ==
    /\ pc = "save"
    /\ \E choice \in {"1", "2", "3", "4"} :
         IF ~SaveWrites(choice)
         THEN /\ answers' = [answers EXCEPT !.choice = choice]
              /\ events' = Append(events, "persist")
              /\ pc' = "pause"
              /\ UNCHANGED <<save_content, disk>>
         ELSE \E name \in Filenames(project_name), section \in SectionsAsked(choice) :
                /\ answers' = [answers EXCEPT !.choice = choice,
                                              !.filename = name,
                                              !.section = section]
                /\ IF SliceRaises(choice, section, final_output)
                   THEN /\ events' = Append(events, "persist")
                        /\ pc' = "raised"
                        /\ UNCHANGED <<save_content, disk>>
                   ELSE /\ save_content' = SaveContent(choice, section, final_output)
                        /\ \E outcome \in WriteOutcomes :
                             \/ /\ outcome = "ok"
                                /\ disk' = WriteFile(disk, name, save_content')
                                /\ events' = events \o <<"persist", "saved">>
                                /\ pc' = "pause"
                             \/ /\ outcome = "open_fails"
                                /\ disk' = disk
                                /\ events' = events \o <<"persist", "error">>
                                /\ pc' = AfterWriteError
                             \/ /\ outcome = "write_fails"
                                /\ disk' = WriteFile(disk, name, << <<>> >>)
                                /\ events' = events \o <<"persist", "error">>
                                /\ pc' = AfterWriteError
    /\ UNCHANGED <<selVars, matchVars, readVars, tree_structure,
                   project_name, defaults, final_output, deleted>>

(***************************************************************************)
(* SpecRun: FullContextTool.run on a project directory.  The root holds    *)
(* files 1 and 2 and directory 3, which holds file 4 and directory 5,      *)
(* which holds file 6.                                                     *)
(***************************************************************************)
RunNodeChoices ==
    << { File(Root, <<"a",".","p","y">>, <<"x","x">>),
         File(Root, <<"a",".","p","y">>, <<"x","\n","x">>) },
       { File(Root, <<"n">>, <<"x">>) },
       { Dir(Root, <<"s">>), Dir(Root, <<".","h">>) },
       { File(3, <<"a",".","p","y">>, <<"x","x">>) },
       { Dir(3, <<"t">>) },
       { File(5, <<"c",".","t","s">>, <<"x","x">>) } >>

\* os.path.basename(project_path)
ProjectNames == {<<"p","r","j">>, <<"m","y"," ","a","p","p">>, <<"x"," ",StructureMarker>>}

InitRun ==
    /\ pc = "run"
    /\ fs \in TreesOf(RunNodeChoices)
    /\ config = [ignore_dirs |-> {}, ignore_files |-> {}, selection_mode |-> "none",
                 max_file_size |-> 0, max_total_size |-> 0]
    /\ mode = "none"
    /\ walker = "none"
    /\ selected_paths = <<>>
    /\ sel_idx = 0
    /\ stack = <<>>
    /\ cur_files = <<>>
    /\ content_str = <<>>
    /\ total_size = 0
    /\ visited = <<>>
    /\ tree_structure = <<>>
    /\ project_name \in ProjectNames
    /\ answers = NoAnswers
    /\ defaults = [ignore_dirs |-> DEFAULT_IGNORE_DIRS,
                   ignore_files |-> DEFAULT_IGNORE_FILES]
    /\ events = <<>>
    /\ final_output = <<>>
    /\ save_content = <<>>
    /\ disk = {}
    /\ deleted = 0
    /\ MatchIdle
    /\ ReadIdle

\* tree_structure = self._generate_tree(project_path, config['ignore_dirs'])
RunGenerateTree ==
    /\ pc = "configured"
    /\ tree_structure' = GenerateTree(Root, config.ignore_dirs)
    /\ events' = Append(events, "traverse")
    /\ pc' = "dispatch"
    /\ UNCHANGED <<selVars, matchVars, readVars,
                   project_name, answers, defaults, final_output, save_content,
                   disk, deleted>>

\* The call of the strategy named by config['selection_mode'].
RunSelect ==
    /\ pc = "dispatch"
    /\ mode' = config.selection_mode
    /\ walker' = config.selection_mode
    /\ IF config.selection_mode = "custom"
       THEN /\ selected_paths' = <<>>
            /\ pc' = "input"
            /\ UNCHANGED <<walkVars, content_str, total_size>>
       ELSE /\ StartWalk(Root)
            /\ UNCHANGED selected_paths
    /\ UNCHANGED <<fs, config, sel_idx, visited, matchVars, readVars,
                   tree_structure, runVars>>

\* final_output = self._format_output(project_name, tree_structure,
\*                                    file_contents, config)
RunFormatOutput ==
    /\ pc = "done"
    /\ final_output' = FormatOutput(project_name, tree_structure, content_str, config)
    /\ events' = Append(events, "format")
    /\ pc' = "preview"
    /\ UNCHANGED <<selVars, matchVars, readVars, tree_structure,
                   project_name, answers, defaults, save_content, disk, deleted>>

\* self._show_preview(console, final_output)
RunShowPreview ==
    /\ pc = "preview"
    /\ events' = Append(events, "preview")
    /\ pc' = "save"
    /\ UNCHANGED <<selVars, matchVars, readVars, tree_structure,
                   project_name, answers, defaults, final_output, save_content,
                   disk, deleted>>

\* console.input("Press Enter to continue...")
RunPause ==
    /\ pc = "pause"
    /\ events' = Append(events, "pause")
    /\ pc' = "end"
    /\ UNCHANGED <<selVars, matchVars, readVars, tree_structure,
                   project_name, answers, defaults, final_output, save_content,
                   disk, deleted>>

NextRun ==
    \/ GetUserConfig
    \/ RunGenerateTree
    \/ RunSelect
    \/ WalkDir
    \/ SmartVisitFile
    \/ AllVisitFile
    \/ WalkReturn
    \/ EnterDoneEmpty
    \/ EnterDone
    \/ \E user_input \in UserInputs : EnterRejected(user_input)
    \/ \E user_input \in UserInputs : EnterPath(user_input)
    \/ CustomReturn
    \/ CustomSelectFile
    \/ CustomSelectDir
    \/ CustomWalkDir
    \/ CustomVisitFile
    \/ CustomWalkEnd
    \/ RunFormatOutput
    \/ RunShowPreview
    \/ HandleSaveOptions
    \/ RunPause

SpecRun == InitRun /\ [][NextRun]_vars

(***************************************************************************)
(* SpecClean: CleanPycacheTool.run on a project directory.  The root       *)
(* holds directories 1 and 3; 1 holds file 2 and node 6; 3 holds node 4    *)
(* and file 5.  A directory with ok FALSE cannot be listed or emptied.     *)
(***************************************************************************)
PycacheName == <<"_","_","p","y","c","a","c","h","e","_","_">>

CleanNodeChoices ==
    << { Dir(Root, PycacheName), LockedDir(Root, PycacheName), Dir(Root, <<"s">>) },
       { File(1, <<"m",".","p","y","c">>, <<"x","x">>),
         File(1, <<"m",".","p","y","c">>, <<"W">>) },
       { Dir(Root, <<"p">>) },
       { Dir(3, PycacheName), LockedDir(3, PycacheName), Dir(3, <<"q">>),
         File(3, PycacheName, <<"x">>) },
       { File(3, <<"a",".","p","y">>, <<"x">>) },
       { Dir(1, PycacheName), File(1, <<"n">>, <<"x">>) } >>

\* What the user answers to "Delete all __pycache__ folders? (y/n)".
ConfirmAnswers ==
    { <<"y">>, <<"Y">>, <<"n">>, <<>>, <<"y","e","s">>, <<" ","y">> }

\* An answer accepted by its first letter.
ConfirmedByFirstLetter(answer) == StartsWith(Lower(answer), <<"y">>)

\* console.input(...).lower() == "y"
Confirmed(answer) == Lower(answer) = <<"y">>

\* Everything under directory d.
RECURSIVE Below(_)
Below(d) ==
    LET kids == {n \in Nodes : Parent(n) = d}
    IN  kids \cup UNION {Below(k) : k \in kids}

RECURSIVE SizeSum(_)
SizeSum(S) ==
    IF S = {} THEN 0
    ELSE LET n == CHOOSE x \in S : TRUE
         IN  RawSize(fs[n].text) + SizeSum(S \ {n})

\* _folder_size(path): sum(f.stat().st_size for f in path.rglob("*") if
\* f.is_file()); nothing is found under a directory that cannot be listed.
FolderSize(path) ==
    IF ~fs[path].ok THEN 0 ELSE SizeSum({n \in Below(path) : IsFile(n)})

\* What can happen to a __pycache__ directory: _folder_size raises; or
\* shutil.rmtree(path, ignore_errors=True) removes it; or rmtree fails and
\* says nothing, the directory staying where it is.
RemovalOutcomes(path) ==
    IF fs[path].ok THEN {"removed"} ELSE {"size_raises", "kept"}

\* The project directory without path and what is under it.
RemoveTree(path) ==
    [n \in Nodes \ ({path} \cup Below(path)) |-> fs[n]]

\* How run is called: run(), run(yes=True) or run(yes=False).
YesArguments == {"absent", "True", "False"}

InitClean ==
    /\ pc = "clean"
    /\ fs \in TreesOf(CleanNodeChoices)
    /\ config = [ignore_dirs |-> {}, ignore_files |-> {},
                 max_file_size |-> 1, max_total_size |-> 1]
    /\ mode = "none"
    /\ walker = "none"
    /\ selected_paths = <<>>
    /\ sel_idx = 0
    /\ stack = <<>>
    /\ cur_files = <<>>
    /\ content_str = <<>>
    /\ total_size = 0
    /\ visited = <<>>
    /\ MatchIdle
    /\ ReadIdle
    /\ TreeIdle
    /\ project_name = <<>>
    /\ answers \in {[NoAnswers EXCEPT !.yes = y] : y \in YesArguments}
    /\ defaults = [ignore_dirs |-> DEFAULT_IGNORE_DIRS,
                   ignore_files |-> DEFAULT_IGNORE_FILES]
    /\ events = <<>>
    /\ final_output = <<>>
    /\ save_content = <<>>
    /\ disk = {}
    /\ deleted = 0

\* def run(self) -> None takes no argument but self: a call that passes
\* yes raises TypeError before the body runs.
CleanCallRejected ==
    /\ pc = "clean"
    /\ answers.yes # "absent"
    /\ events' = Append(events, "TypeError")
    /\ pc' = "raised"
    /\ UNCHANGED <<selVars, deleted, matchVars, readVars, tree_structure,
                   project_name, answers, defaults, final_output, save_content, disk>>

\* Lines 26-31: the confirmation prompt; anything but y or Y prints the
\* cancellation message and returns.
CleanConfirm ==
    /\ pc = "clean"
    /\ answers.yes = "absent"
    /\ \E answer \in ConfirmAnswers :
           /\ answers' = [answers EXCEPT !.confirm = answer]
           /\ IF Confirmed(answer)
              THEN /\ deleted' = 0
                   /\ total_size' = 0
                   /\ stack' = <<Root>>
                   /\ events' = events
                   /\ pc' = "scan"
              ELSE /\ events' = Append(events, "cancelled")
                   /\ pc' = "end"
                   /\ UNCHANGED <<deleted, total_size, stack>>
    /\ UNCHANGED <<fs, config, mode, walker, selected_paths, sel_idx, cur_files,
                   content_str, visited, matchVars, readVars, tree_structure,
                   project_name, defaults, final_output, save_content, disk>>

\* One turn of `for root, dirs, _ in os.walk(start_path)`: a directory that
\* cannot be listed yields nothing; otherwise the body runs and the
\* directories left in dirs are walked next.
CleanWalkStep ==
    /\ pc = "scan"
    /\ stack # <<>>
    /\ LET top == Head(stack)
           dirs == SelectSeq(ListDir(top), IsDir)
           hits == {d \in SeqRange(dirs) : fs[d].name = PycacheName}
       IN  IF top # Root /\ ~fs[top].ok
           THEN /\ stack' = Tail(stack)
                /\ UNCHANGED <<fs, deleted, total_size, events>>
           ELSE IF hits = {}
           THEN /\ stack' = dirs \o Tail(stack)
                /\ events' = Append(events, "walk")
                /\ UNCHANGED <<fs, deleted, total_size>>
           ELSE LET path == CHOOSE d \in hits : TRUE
                    NotPath(d) == d # path
                IN  \E outcome \in RemovalOutcomes(path) :
                      IF outcome = "size_raises"
                      THEN /\ events' = events \o <<"walk", "failed">>
                           /\ stack' = dirs \o Tail(stack)
                           /\ UNCHANGED <<fs, deleted, total_size>>
                      ELSE /\ fs' = IF outcome = "removed" THEN RemoveTree(path) ELSE fs
                           /\ deleted' = deleted + 1
                           /\ total_size' = total_size + FolderSize(path)
                           /\ events' = events \o <<"walk", "deleted">>
                           /\ stack' = SelectSeq(dirs, NotPath) \o Tail(stack)
    /\ UNCHANGED <<pc, config, mode, walker, selected_paths, sel_idx, cur_files,
                   content_str, visited, matchVars, readVars, tree_structure,
                   project_name, answers, defaults, final_output, save_content, disk>>

\* Lines 48-55: the summary or the "no folders found" line, then the pause.
CleanFinish ==
    /\ pc = "scan"
    /\ stack = <<>>
    /\ events' = events \o <<IF deleted # 0 THEN "summary" ELSE "none_found", "pause">>
    /\ pc' = "end"
    /\ UNCHANGED <<selVars, deleted, matchVars, readVars, tree_structure,
                   project_name, answers, defaults, final_output, save_content, disk>>

NextClean ==
    \/ CleanCallRejected
    \/ CleanConfirm
    \/ CleanWalkStep
    \/ CleanFinish

SpecClean == InitClean /\ [][NextClean]_vars

(***************************************************************************)
(* What the selection claims speak about, stated over the directory tree   *)
(* and not over the loops.                                                 *)
(***************************************************************************)
RECURSIVE Ancestors(_)
Ancestors(n) == IF n = Root THEN {} ELSE {Parent(n)} \cup Ancestors(Parent(n))

\* The directories on the way from top (excluded) down to f.
DirsBetween(f, top) == Ancestors(f) \ (Ancestors(top) \cup {top})

\* The entry of directory c on the way to n (n itself when c holds it).
BranchAt(n, c) == CHOOSE b \in Ancestors(n) \cup {n} : Parent(b) = c

\* os.walk order of two different files: a directory's own files come
\* before those of its sub-directories; siblings in listing order.
Before(f, g) ==
    IF Parent(f) = Parent(g) THEN f < g
    ELSE IF Parent(f) \in Ancestors(g) THEN TRUE
    ELSE IF Parent(g) \in Ancestors(f) THEN FALSE
    ELSE LET common == Ancestors(f) \cap Ancestors(g)
             c == CHOOSE x \in common : \A y \in common : y \in Ancestors(x) \cup {x}
         IN  BranchAt(f, c) < BranchAt(g, c)

RECURSIVE OrderSeq(_)
OrderSeq(S) ==
    IF S = {} THEN <<>>
    ELSE LET m == CHOOSE x \in S : \A y \in S \ {x} : Before(x, y)
         IN  <<m>> \o OrderSeq(S \ {m})

RECURSIVE SumLen(_)
SumLen(S) ==
    IF S = {} THEN 0
    ELSE LET f == CHOOSE x \in S : TRUE
         IN  Len(Content(f).text) + SumLen(S \ {f})

\* The files a walk from top reads with a result: under no pruned
\* directory, matching no ignore pattern, important when smart is set, and
\* read as something other than None.
Candidates(top, smart) ==
    {f \in FileNodes :
        /\ top \in Ancestors(f)
        /\ \A d \in DirsBetween(f, top) : fs[d].name \notin config.ignore_dirs
        /\ ~ShouldIgnoreFile(fs[f].name, config.ignore_files)
        /\ smart => IsImportantFile(fs[f].name, important_patterns)
        /\ ~Content(f).none}

\* The running total once f has been counted.
CumLen(f, C) == SumLen({g \in C : g = f \/ Before(g, f)})

WithinBudget(C) == {f \in C : CumLen(f, C) <= config.max_total_size}

BlockOf(f) == FormatFileContent(RelPath(f), Content(f).text)

\* The output of a smart (smart = TRUE) or all walk from top.
ExpectedOutput(top, smart) ==
    LET C == Candidates(top, smart)
        blocks == [i \in 1..Cardinality(WithinBudget(C)) |->
                      BlockOf(OrderSeq(WithinBudget(C))[i])]
    IN  IF WithinBudget(C) = C THEN blocks ELSE Append(blocks, SmartMarker)

IsFilePiece(piece) == piece.kind = "file"
FileBlocks(str) == SelectSeq(str, IsFilePiece)

HasBlock(f) == \E i \in 1..Len(content_str) : content_str[i] = BlockOf(f)

RECURSIVE ContentTotal(_)
ContentTotal(str) ==
    IF str = <<>> THEN 0
    ELSE (IF Head(str).kind = "file" THEN Len(Head(str).content) ELSE 0)
         + ContentTotal(Tail(str))

LargestContent(str) ==
    LET sizes == {Len(str[i].content) : i \in {k \in 1..Len(str) : str[k].kind = "file"}}
    IN  IF sizes = {} THEN 0 ELSE CHOOSE m \in sizes : \A n \in sizes : n <= m

\* The running total after the first i files handed to the reader.
RECURSIVE ReadTotal(_)
ReadTotal(i) ==
    IF i = 0 THEN 0 ELSE ReadTotal(i - 1) + Len(Content(visited[i]).text)

\* The file whose content first took the running total above the ceiling.
Breached == \E i \in 1..Len(visited) : ReadTotal(i) > config.max_total_size
BreachFile ==
    visited[CHOOSE i \in 1..Len(visited) :
                /\ ReadTotal(i) > config.max_total_size
                /\ \A k \in 1..(i - 1) : ReadTotal(k) <= config.max_total_size]

\* C1: in every run of every strategy the file content in the output never
\* exceeds max_total_size by more than the size of one file's content.
C1_OvershootAtMostOneFile ==
    ContentTotal(content_str) <= config.max_total_size + LargestContent(content_str)

\* C2: the running total never decreases, and once it exceeds
\* max_total_size no further file content is appended to the output.
C2_BudgetMonotone ==
    [][/\ total_size' >= total_size
       /\ total_size > config.max_total_size =>
              FileBlocks(content_str') = FileBlocks(content_str)]_vars

\* C3 as stated: in every strategy the file that first pushes the running
\* total above max_total_size is itself present in the output.
C3_BreachingFilePresent ==
    total_size > config.max_total_size => Breached /\ HasBlock(BreachFile)

\* C3 amended: smart and all add the content's length to the running total
\* and compare it with max_total_size before appending, so the file that
\* first pushes the total above the ceiling is not in the output, the
\* function returns at once with the omitted marker last, and that file is
\* the last one visited; custom appends before it compares, so there the
\* breaching file is in the output and the marker is last on return.
C3_BudgetStop ==
    total_size > config.max_total_size =>
        /\ Breached
        /\ walker \in {"smart", "all"} =>
               /\ pc = "done"
               /\ BreachFile = visited[Len(visited)]
               /\ ~HasBlock(BreachFile)
               /\ content_str[Len(content_str)] = SmartMarker
               /\ ContentTotal(content_str) + Len(Content(BreachFile).text) = total_size
        /\ walker = "custom" =>
               /\ HasBlock(BreachFile)
               /\ ContentTotal(content_str) = total_size
               /\ pc = "done" => content_str[Len(content_str)] = CustomMarker

\* A smart or all run stopped by the budget with files still unvisited.
C3_Witness ==
    /\ pc = "done"
    /\ walker \in {"smart", "all"}
    /\ total_size > config.max_total_size
    /\ Len(content_str) >= 2
    /\ cur_files # <<>> \/ stack # <<>>

\* The directories a file piece came through below the walk's top.
PrunedName(name) == name \in config.ignore_dirs \/ StartsWith(name, <<".">>)

\* C5: no file beneath a directory whose name is in ignore_dirs or starts
\* with '.' contributes content (smart, all, directories of custom).
C5_NoContentBelowPrunedDirs ==
    \A f \in FileNodes :
        HasBlock(f) =>
            IF walker \in {"smart", "all"}
            THEN \A d \in DirsBetween(f, Root) : ~PrunedName(fs[d].name)
            ELSE \/ \E i \in 1..Len(selected_paths) : selected_paths[i] = f
                 \/ \E i \in 1..Len(selected_paths) :
                       /\ selected_paths[i] \in Ancestors(f)
                       /\ \A d \in DirsBetween(f, selected_paths[i]) :
                              ~PrunedName(fs[d].name)

C8_FallbackIsSmart ==
    (pc = "done" /\ mode = "custom" /\ selected_paths = <<>>) =>
        content_str = ExpectedOutput(Root, TRUE)

\* A fallback run that produced file content and a file that only all
\* selection would have included.
C8_Witness ==
    /\ pc = "done"
    /\ mode = "custom"
    /\ selected_paths = <<>>
    /\ FileBlocks(content_str) # <<>>
    /\ Candidates(Root, FALSE) # Candidates(Root, TRUE)

\* C9: custom selection of one directory D includes the same files in the
\* same order, and is stopped by the budget at the same point, as all
\* selection rooted at D.
C9_CustomDirIsAll ==
    (pc = "done" /\ mode = "custom" /\ Len(selected_paths) = 1
        /\ IsDir(selected_paths[1])) =>
        FileBlocks(content_str) = FileBlocks(ExpectedOutput(selected_paths[1], FALSE))

\* The loops and the tree-level statement of a smart or all walk agree.
WalkMatchesExpected ==
    (pc = "done" /\ mode \in {"smart", "all"}) =>
        content_str = ExpectedOutput(Root, mode = "smart")

\* The lines of the tree rendered from node n.
EntriesOf(n) ==
    {i \in 1..Len(tree_structure) :
        tree_structure[i].kind = "entry" /\ tree_structure[i].node = n}

\* A directory named in ignore_dirs or starting with '.', or a file
\* starting with '.'.
Excluded(n) ==
    \/ StartsWith(fs[n].name, <<".">>)
    \/ IsDir(n) /\ fs[n].name \in config.ignore_dirs

\* C6: the rendered tree has no entry for an excluded directory or file
\* nor for anything beneath an excluded directory; every other directory
\* and file within the depth limit (its directory is at depth max_depth at
\* most) has exactly one entry, carrying its name at its nesting depth.
C6_TreeExclusion ==
    pc = "tree_done" =>
        \A n \in Nodes :
            IF Excluded(n) \/ \E a \in Ancestors(n) \ {Root} : Excluded(a)
            THEN EntriesOf(n) = {}
            ELSE IF Cardinality(Ancestors(n)) - 1 <= max_depth
            THEN /\ Cardinality(EntriesOf(n)) = 1
                 /\ \A i \in EntriesOf(n) :
                        /\ tree_structure[i].name = fs[n].name
                        /\ tree_structure[i].icon = fs[n].kind
                        /\ Len(tree_structure[i].prefix) = Cardinality(Ancestors(n)) - 1
            ELSE EntriesOf(n) = {}

\* A tree with an ignored directory, a hidden one and a hidden file, and
\* the chain rendered down to the depth limit.
C6_Witness ==
    /\ pc = "tree_done"
    /\ \E n \in Nodes : IsDir(n) /\ fs[n].name \in config.ignore_dirs
    /\ \E n \in Nodes : IsDir(n) /\ StartsWith(fs[n].name, <<".">>)
    /\ \E n \in Nodes : IsFile(n) /\ StartsWith(fs[n].name, <<".">>)
    /\ \E i \in 1..Len(tree_structure) : tree_structure[i].kind = "limit"
    /\ Len(tree_structure) > 8

\* The three-case rule: exact name, '*'-prefixed suffix pattern, or
\* '*'-suffixed prefix pattern.
ThreeCaseRule(n, P) ==
    \/ n \in P
    \/ \E p \in P : Len(p) > 0 /\ p[1] = "*" /\ EndsWith(n, Tail(p))
    \/ \E p \in P : Len(p) > 0 /\ p[Len(p)] = "*"
                      /\ StartsWith(n, SubSeq(p, 1, Len(p) - 1))

\* A pattern whose only wildcard is one '*' placed first or last.
SimplePattern(p) ==
    /\ \A i \in 1..Len(p) : p[i] \notin {"?", "["}
    /\ Cardinality({i \in 1..Len(p) : p[i] = "*"}) <= 1
    /\ \A i \in 2..(Len(p) - 1) : p[i] # "*"

\* C4 as stated: the file-ignore decision of the context tool is true iff
\* the three-case rule holds, for every name and every pattern set.
C4_ThreeCaseForAllPatterns ==
    pc = "matched" => (ignored <=> ThreeCaseRule(filename, ignore_patterns))

\* C4 amended: for pattern sets whose patterns hold no '?', no '[' and at
\* most one '*', placed first or last, the context tool's file-ignore
\* decision is true iff the three-case rule holds; utils.should_ignore
\* follows the three-case rule for every pattern set.
C4_IgnoreCorrectSimplePatterns ==
    pc = "matched" =>
        /\ (\A p \in ignore_patterns : SimplePattern(p)) =>
               (ignored <=> ThreeCaseRule(filename, ignore_patterns))
        /\ utils_ignored <=> ThreeCaseRule(filename, ignore_patterns)

\* A name ignored through a simple wildcard pattern, not by exact name.
C4_Witness ==
    /\ pc = "matched"
    /\ \A p \in ignore_patterns : SimplePattern(p)
    /\ filename \notin ignore_patterns
    /\ Len(filename) = MaxNameLen
    /\ ignored

\* What the reader is said to return for a text: cut and marked when longer
\* than max_size, unchanged otherwise.
CutOrUnchanged(text, size) ==
    IF Len(text) > size
    THEN SubSeq(text, 1, size) \o TruncationMarker
    ELSE text

\* C10 as stated: for every readable file the reader takes at most
\* 2 x max_size characters and returns the text cut and marked when it is
\* longer than max_size and unchanged otherwise (None counted as the empty
\* text); every read of the file gives the same result.
C10_CutOrUnchangedAlways ==
    \A i \in 1..Len(reads) :
        file.ok =>
            /\ consumed <= 2 * max_size
            /\ reads[i].text = CutOrUnchanged(file.text, max_size)
            /\ reads[i] = reads[1]

\* C10 amended: for every readable file the reader takes at most
\* 2 x max_size characters; a text longer than max_size gives its first
\* max_size characters followed by the truncation marker; a shorter text
\* with a character that is not white space is returned unchanged; an empty
\* or all-white-space text of at most max_size characters gives None; every
\* read of the file gives the same result.
C10_ReaderTruncation ==
    \A i \in 1..Len(reads) :
        file.ok =>
            /\ consumed <= 2 * max_size
            /\ Len(file.text) > max_size =>
                   reads[i] = Str(SubSeq(file.text, 1, max_size) \o TruncationMarker)
            /\ (Len(file.text) <= max_size
                  /\ \E k \in 1..Len(file.text) : file.text[k] \notin WhiteSpace) =>
                   reads[i] = Str(file.text)
            /\ (Len(file.text) <= max_size
                  /\ \A k \in 1..Len(file.text) : file.text[k] \in WhiteSpace) =>
                   reads[i] = None
            /\ reads[i] = reads[1]

\* A file longer than twice max_size read twice and cut both times.
C10_Witness ==
    /\ Len(reads) = MaxReads
    /\ file.ok
    /\ Len(file.text) > 2 * max_size
    /\ consumed = 2 * max_size
    /\ reads[2].text = SubSeq(file.text, 1, max_size) \o TruncationMarker

\* The string returned when opening or reading fails.
ErrorString == Str(ErrorPrefix \o ErrorMessage \o <<"]">>)

Blank(text) == \A k \in 1..Len(text) : text[k] \in WhiteSpace

\* C11: the reader returns None for an empty file and for a file holding
\* only white space, and the formatted error string, never an exception,
\* when opening or reading fails.
C11_NoneForBlankErrorForFailure ==
    \A i \in 1..Len(reads) :
        /\ ~file.ok => reads[i] = ErrorString
        /\ (file.ok /\ Blank(file.text)) => reads[i] = None

\* C12: a file whose raw size exceeds max_file_size is never returned in
\* full: its block is its first max_file_size characters followed by the
\* truncation marker.
C12_OverSizeFileCut ==
    \A i \in 1..Len(reads) :
        (file.ok /\ RawSize(file.text) > max_size) =>
            /\ reads[i].text # file.text
            /\ reads[i] = Str(Take(file.text, max_size) \o TruncationMarker)

\* The line of the tree rendered from node n, and the nodes with one.
Idx(n) == CHOOSE i \in EntriesOf(n) : TRUE
Rendered(n) == EntriesOf(n) # {}

\* The depth of directory d (root = 0), the entries it shows, and whether
\* its entries are listed.
DepthOf(d) == Cardinality(Ancestors(d))
Shown(d) == {n \in Nodes : Parent(n) = d /\ ~Excluded(n)}
Listed(d) == d = Root \/ (IsDir(d) /\ Rendered(d) /\ DepthOf(d) <= max_depth)
PrefixOf(d) == IF d = Root THEN <<>> ELSE tree_structure[Idx(d)].prefix
UnitUnder(d) ==
    IF d = Root THEN <<>>
    ELSE IF tree_structure[Idx(d)].connector = "last" THEN <<"blank">> ELSE <<"bar">>

\* Sub-directories before files, each group in lexicographic order.
Precedes(a, b) ==
    \/ IsDir(a) /\ IsFile(b)
    \/ IsDir(a) = IsDir(b) /\ LexLess(fs[a].name, fs[b].name)

\* C13: at every listed level the entries are the non-excluded
\* sub-directories in lexicographic order followed by the non-hidden files
\* in lexicographic order; exactly the last entry of the level has the
\* closing connector; a sub-directory's entries follow its own line
\* immediately, indented by one more prefix unit.
C13_TreeOrdering ==
    pc = "tree_done" =>
        \A d \in {n \in Nodes \cup {Root} : Listed(n)} :
            /\ \A a \in Shown(d) : Rendered(a)
            /\ \A a \in Shown(d) : \A b \in Shown(d) \ {a} :
                   Idx(a) < Idx(b) <=> Precedes(a, b)
            /\ \A a \in Shown(d) :
                   tree_structure[Idx(a)].connector = "last"
                       <=> \A b \in Shown(d) \ {a} : Idx(b) < Idx(a)
            /\ \A a \in Shown(d) :
                   /\ tree_structure[Idx(a)].prefix = PrefixOf(d) \o UnitUnder(d)
                   /\ d # Root =>
                          \A i \in (Idx(d) + 1)..Idx(a) :
                              Len(tree_structure[i].prefix) > Len(PrefixOf(d))
            /\ (d # Root /\ Shown(d) # {}) =>
                   \E a \in Shown(d) : Idx(a) = Idx(d) + 1

\* A tree whose root shows two sub-directories in the reverse of directory
\* order, two files, and entries two levels down under a branching entry.
C13_Witness ==
    /\ pc = "tree_done"
    /\ \E a, b \in Shown(Root) :
           IsDir(a) /\ IsDir(b) /\ a < b /\ Idx(b) < Idx(a)
    /\ \E a, b \in Shown(Root) : IsFile(a) /\ IsFile(b) /\ a # b
    /\ \E i \in 1..Len(tree_structure) :
           /\ Len(tree_structure[i].prefix) >= 2
           /\ tree_structure[i].prefix[1] = "bar"
           /\ tree_structure[i].kind = "entry"

IsLimitLine(i) == i \in 1..Len(tree_structure) /\ tree_structure[i].kind = "limit"

\* C14: the entries of a directory are listed only while its depth
\* (root = 0) does not exceed max_depth = 5; a rendered directory whose
\* own depth exceeds the limit is followed by exactly one placeholder line
\* in place of its entries and nothing beneath it is rendered; placeholder
\* lines appear nowhere else.
C14_TreeDepthLimit ==
    pc = "tree_done" =>
        /\ \A n \in Nodes : Rendered(n) => DepthOf(Parent(n)) <= max_depth
        /\ \A d \in Nodes :
               (IsDir(d) /\ Rendered(d)) =>
                   IF DepthOf(d) > max_depth
                   THEN /\ IsLimitLine(Idx(d) + 1)
                        /\ tree_structure[Idx(d) + 1].prefix =
                               PrefixOf(d) \o UnitUnder(d)
                        /\ \A n \in Nodes : d \in Ancestors(n) => ~Rendered(n)
                   ELSE /\ ~IsLimitLine(Idx(d) + 1)
                        /\ \A n \in Shown(d) : Rendered(n)
        /\ \A i \in 1..Len(tree_structure) :
               IsLimitLine(i) =>
                   \E d \in Nodes :
                       /\ IsDir(d) /\ Rendered(d) /\ Idx(d) = i - 1
                       /\ DepthOf(d) = max_depth + 1

\* A tree with a directory at depth 5 whose entry is listed and which holds
\* a directory at depth 6, rendered with the placeholder and without its file.
C14_Witness ==
    /\ pc = "tree_done"
    /\ \E d \in Nodes :
           /\ IsDir(d) /\ Rendered(d) /\ DepthOf(d) = max_depth
           /\ \E e \in Shown(d) :
                  /\ IsDir(e) /\ Rendered(e) /\ IsLimitLine(Idx(e) + 1)
                  /\ \E f \in Shown(e) : IsFile(f) /\ ~Rendered(f)

\* The directories the renderer reaches: no directory on the way down to
\* them is excluded or fails to list.
Reached(d) ==
    /\ IsDir(d) /\ d # Root /\ ~Excluded(d)
    /\ \A a \in Ancestors(d) \ {Root} : ~Excluded(a) /\ fs[a].ok

\* C15: a directory whose listing fails contributes an empty subtree and
\* no error: the tree is returned, the directory has its own entry line,
\* nothing beneath it has one, the next line is not one of its subtree,
\* and every entry of the directory holding it is rendered.
C15_UnreadableDirEmptySubtree ==
    pc = "tree_done" =>
        /\ tree_structure[1] = HeaderLine
        /\ \A d \in Nodes :
               (Reached(d) /\ ~fs[d].ok) =>
                   /\ Cardinality(EntriesOf(d)) = 1
                   /\ \A n \in Nodes : d \in Ancestors(n) => ~Rendered(n)
                   /\ Idx(d) < Len(tree_structure) =>
                          /\ tree_structure[Idx(d) + 1].kind = "entry"
                          /\ Len(tree_structure[Idx(d) + 1].prefix)
                                 <= Len(tree_structure[Idx(d)].prefix)
                   /\ \A b \in Shown(Parent(d)) : Cardinality(EntriesOf(b)) = 1

\* A tree with a directory that fails to list, holds a file and a
\* directory, and is followed by the entries of its siblings.
C15_Witness ==
    /\ pc = "tree_done"
    /\ \E d \in Nodes :
           /\ Reached(d) /\ ~fs[d].ok
           /\ \E n \in Shown(d) : IsFile(n)
           /\ \E n \in Shown(d) : IsDir(n)
           /\ \E b \in Shown(Parent(d)) : IsDir(b) /\ Idx(b) > Idx(d)
           /\ \E b \in Shown(Parent(d)) : IsFile(b) /\ Rendered(b)

(***************************************************************************)
(* The run of the context tool.                                            *)
(***************************************************************************)
Stages == <<"configure", "traverse", "format", "preview", "persist">>

\* The stages entered so far, in order.
StageSeq ==
    LET IsStage(e) == e \in SeqRange(Stages)
    IN  SelectSeq(events, IsStage)

\* A single pass: the stages entered are the first ones of the pipeline,
\* each once.
SinglePass ==
    /\ Len(StageSeq) <= Len(Stages)
    /\ StageSeq = SubSeq(Stages, 1, Len(StageSeq))

\* The points at which the tool waits for input before the save step: the
\* mode and ignore prompts, and the path prompt of custom mode.
AwaitsConfigPrompts == pc = "run"
AwaitsPathPrompt == pc = "input"

NothingWrittenEarly ==
    /\ disk # {} => "persist" \in SeqRange(events)
    /\ answers.choice = "4" => disk = {}

Stretches(typed) ==
    {p \in (1..Len(typed) + 1) \X (0..Len(typed)) :
        /\ p[1] <= p[2] + 1
        /\ p[1] = 1 \/ typed[p[1] - 1] = ","
        /\ p[2] = Len(typed) \/ typed[p[2] + 1] = ","
        /\ \A k \in p[1]..p[2] : typed[k] # ","}

Trimmed(s) ==
    LET ink == {k \in 1..Len(s) : s[k] \notin WhiteSpace}
    IN  IF ink = {} THEN <<>>
        ELSE SubSeq(s, CHOOSE a \in ink : \A k \in ink : a <= k,
                       CHOOSE b \in ink : \A k \in ink : k <= b)

TypedTokens(typed) ==
    {Trimmed(SubSeq(typed, p[1], p[2])) : p \in Stretches(typed)} \ {<<>>}

\* C19: once _get_user_config has returned, ignore_dirs is the default
\* directory set united with the trimmed, non-empty comma-separated tokens
\* the user typed, ignore_files likewise with the default pattern set, the
\* selection mode is the one mapped from the choice (1 smart, 2 all,
\* 3 custom), the ceilings are 20000 per file and 200000 in total, and the
\* class-level default sets are unchanged.
C19_ConfigBuilt ==
    pc # "run" =>
        /\ config.ignore_dirs = DEFAULT_IGNORE_DIRS \cup TypedTokens(answers.custom_ignore)
        /\ config.ignore_files = DEFAULT_IGNORE_FILES \cup TypedTokens(answers.custom_files)
        /\ answers.mode_choice = "1" => config.selection_mode = "smart"
        /\ answers.mode_choice = "2" => config.selection_mode = "all"
        /\ answers.mode_choice = "3" => config.selection_mode = "custom"
        /\ answers.mode_choice \in {"1", "2", "3"}
        /\ config.max_file_size = 20000
        /\ config.max_total_size = 200000
        /\ defaults.ignore_dirs = DEFAULT_IGNORE_DIRS
        /\ defaults.ignore_files = DEFAULT_IGNORE_FILES

\* A config built from answers with padded, empty and blank tokens: two
\* directories and two patterns were added.
C19_Witness ==
    /\ pc = "configured"
    /\ answers.mode_choice = "3"
    /\ \E i \in 1..Len(answers.custom_ignore) : answers.custom_ignore[i] = " "
    /\ Cardinality(config.ignore_dirs) = Cardinality(DEFAULT_IGNORE_DIRS) + 2
    /\ Cardinality(config.ignore_files) = Cardinality(DEFAULT_IGNORE_FILES) + 2
    /\ <<"s">> \in config.ignore_dirs
    /\ <<"*",".","t","s">> \in config.ignore_files

(***************************************************************************)
(* The save step.                                                          *)
(***************************************************************************)
Count(e) == Cardinality({i \in 1..Len(events) : events[i] = e})

SaveStepOver == "persist" \in SeqRange(events)

\* C17: whatever the save option and the document, a save step whose file
\* cannot be opened or written reports one error message and returns
\* normally (the run goes on to its final pause and ends); a save step
\* that succeeds with the full-context option leaves a file holding
\* exactly the document.
C17_SaveFailureNotFatal ==
    /\ pc # "raised"
    /\ Count("error") <= 1
    /\ (SaveStepOver /\ answers.choice # "4") =>
           /\ pc \in {"pause", "end"}
           /\ Count("saved") + Count("error") = 1
    /\ (Count("saved") = 1 /\ answers.choice = "1") =>
           /\ save_content = final_output
           /\ \A f \in disk : f.name = answers.filename => f.content = final_output
           /\ \E f \in disk : f.name = answers.filename

\* A run that ended after a failed write of a section slice.
C17_Witness ==
    /\ pc = "end"
    /\ answers.choice = "2"
    /\ Count("error") = 1
    /\ Count("saved") = 0
    /\ save_content # <<>>

(***************************************************************************)
(* The sections of a document, found by scanning it.                       *)
(***************************************************************************)
LinesWith(doc, sub) == {i \in 1..Len(doc) : Contains(doc[i], sub)}

Lowest(S) == CHOOSE i \in S : \A j \in S : i <= j

\* From the PROJECT STRUCTURE: line up to, not including, the next
\* separator line.
StructureSection(doc) ==
    LET start == Lowest(LinesWith(doc, StructureMarker))
        sep == Lowest({i \in LinesWith(doc, Separator) : i > start})
    IN  SubSeq(doc, start, sep - 1)

\* From the FILE CONTENTS: line up to, not including, the separator line
\* that opens the guidance section (the one just above its marker line).
ContentsSection(doc) ==
    LET start == Lowest(LinesWith(doc, ContentsMarker))
        sep == Lowest(LinesWith(doc, GuidanceMarker)) - 1
    IN  SubSeq(doc, start, sep - 1)

SliceTaken == answers.choice = "2" /\ save_content # <<>>

\* C18: the structure-only slice of a formatted document is exactly its
\* structure section and the contents-only slice is exactly its contents
\* section, which ends before the separator opening the guidance section.
C18_SaveAndSlice ==
    /\ (SliceTaken /\ answers.section = "1") =>
           save_content = StructureSection(final_output)
    /\ (SliceTaken /\ answers.section = "2") =>
           save_content = ContentsSection(final_output)

(***************************************************************************)
(* Clean-pycache.                                                          *)
(***************************************************************************)
\* The confirmation prompt has been shown and answered.
Answered == pc \notin {"clean", "raised"}

\* C20: when the answer to the confirmation prompt is anything but y or Y,
\* the tool prints the cancellation message and returns: the directory
\* tree is not scanned, nothing is deleted, and neither the summary nor
\* the "no folders found" message is printed.
C20_CancelCleansNothing ==
    (Answered /\ answers.confirm \notin {<<"y">>, <<"Y">>}) =>
        /\ pc = "end"
        /\ events = <<"cancelled">>
        /\ stack = <<>>
        /\ Nodes = 1..Len(CleanNodeChoices)
        /\ deleted = 0
        /\ total_size = 0

\* A cancelled run, by an answer that begins with y, on a project that has
\* a removable __pycache__ directory.
C20_Witness ==
    /\ pc = "end"
    /\ answers.confirm = <<"y","e","s">>
    /\ events = <<"cancelled">>
    /\ \E d \in Nodes : IsDir(d) /\ fs[d].name = PycacheName /\ fs[d].ok

PycacheDirs == {d \in Nodes : IsDir(d) /\ fs[d].name = PycacheName}

CallOver == pc \in {"end", "raised"}

\* C21: a call of run with yes set ends normally with every __pycache__
\* directory removed, no confirmation prompt shown and no cancellation
\* message printed.
C21_YesFlagCleans ==
    (CallOver /\ answers.yes = "True") =>
        /\ pc = "end"
        /\ PycacheDirs = {}
        /\ answers.confirm = <<>>
        /\ Count("cancelled") = 0

\* The directory holding node n in every project of the pool.
HomeOf(n) == (CHOOSE c \in CleanNodeChoices[n] : TRUE).parent

\* The nodes that were removed themselves, not with a directory above them.
RemovedTops ==
    {n \in 1..Len(CleanNodeChoices) \ Nodes : HomeOf(n) = Root \/ HomeOf(n) \in Nodes}

\* The __pycache__ directories the scan came to and left in place.
RECURSIVE Scanned(_)
Scanned(d) ==
    \/ d = Root
    \/ /\ d \in Nodes
       /\ Parent(d) = Root \/ (Parent(d) \in Nodes /\ fs[Parent(d)].ok)
       /\ Scanned(Parent(d))

LeftInPlace == {d \in PycacheDirs : Scanned(d)}

\* C22: a __pycache__ directory whose removal fails is logged with a
\* 'Failed to delete' message and is not counted: at the end of a confirmed
\* scan the deleted count is the number of directories removed, every
\* directory left in place has its log line, and the run has finished
\* normally.
C22_FailedRemovalLogged ==
    (CallOver /\ answers.confirm \in {<<"y">>, <<"Y">>}) =>
        /\ pc = "end"
        /\ deleted = Cardinality(RemovedTops)
        /\ Count("failed") = Cardinality(LeftInPlace)
        /\ Count("deleted") = deleted

(***************************************************************************)
(* The size-limit marker and the ceiling.                                  *)
(***************************************************************************)
\* The files the finished strategy selects and reads with a result: those
\* of its walk, or in custom mode the listed files and those of the walks
\* of the listed directories.
Selected ==
    IF walker \in {"smart", "all"}
    THEN Candidates(Root, walker = "smart")
    ELSE LET paths == SeqRange(selected_paths)
         IN  {f \in FileNodes : f \in paths /\ ~Content(f).none}
             \cup UNION {Candidates(p, FALSE) : p \in {q \in paths : IsDir(q)}}

HasMarker == \E i \in 1..Len(content_str) : content_str[i].kind = "marker"

\* C26: in every strategy the finished output carries the size-limit
\* marker exactly when the content of some selected file with a non-empty
\* read was left out, and a marker is the last piece of the output.
C26_MarkerIffOmission ==
    pc = "done" =>
        /\ HasMarker <=> \E f \in Selected : ~HasBlock(f)
        /\ HasMarker => content_str[Len(content_str)].kind = "marker"

\* C27: while smart or all selection runs, and when it has returned, the
\* lengths of the file contents appended to the output sum to at most
\* max_total_size; the file that takes the running total above the
\* ceiling is counted but not appended.
C27_HardCeiling ==
    walker \in {"smart", "all"} =>
        /\ ContentTotal(content_str) <= config.max_total_size
        /\ total_size > config.max_total_size =>
               /\ ~HasBlock(BreachFile)
               /\ ContentTotal(content_str) <= config.max_total_size
                      /\ config.max_total_size < total_size

\* A smart or all run stopped by the budget after it had appended a file:
\* the dropped file would have taken the output over the ceiling.
C27_Witness ==
    /\ pc = "done"
    /\ mode \in {"smart", "all"}
    /\ total_size > config.max_total_size
    /\ FileBlocks(content_str) # <<>>
    /\ ContentTotal(content_str) + Len(Content(BreachFile).text) > config.max_total_size

(***************************************************************************)
(* The document of a run.                                                  *)
(***************************************************************************)
DocumentBuilt == "format" \in SeqRange(events)

\* C28: in a smart or all run every file with a content block has an entry
\* in the tree rendered by the same run, when it lies within the depth
\* limit of the tree.
C28_TreeCoversContents ==
    (DocumentBuilt /\ config.selection_mode \in {"smart", "all"}) =>
        \A f \in FileNodes :
            (HasBlock(f) /\ DepthOf(f) <= max_depth) => Rendered(f)

\* C29: every document built by the formatter has a PROJECT STRUCTURE:
\* line, later a separator line and later a FILE CONTENTS: line, so the
\* section save of a run finds its start marker: the save step never
\* raises, and what it hands to the file starts with a line holding the
\* marker of the section asked for.
C29_MarkersLocatable ==
    /\ pc # "raised"
    /\ DocumentBuilt =>
           \E i, j, k \in 1..Len(final_output) :
               /\ i < j /\ j < k
               /\ Contains(final_output[i], StructureMarker)
               /\ Contains(final_output[j], Separator)
               /\ Contains(final_output[k], ContentsMarker)
    /\ (SaveStepOver /\ answers.choice = "2") =>
           /\ save_content # <<>>
           /\ answers.section = "1" => Contains(save_content[1], StructureMarker)
           /\ answers.section = "2" => Contains(save_content[1], ContentsMarker)

\* A finished run whose project name holds the structure marker and whose
\* contents section was saved.
C29_Witness ==
    /\ pc = "end"
    /\ Contains(project_name, StructureMarker)
    /\ answers.choice = "2"
    /\ answers.section = "2"
    /\ Count("saved") = 1
    /\ FileBlocks(content_str) # <<>>

(***************************************************************************)
(* The menu tools (file operations, environment manager, Django manager).  *)
(* They use none of the context generator's state.                         *)
(***************************************************************************)
ToolIdle ==
    /\ SelIdle
    /\ MatchIdle
    /\ ReadIdle
    /\ TreeIdle
    /\ project_name = <<>>
    /\ defaults = [ignore_dirs |-> DEFAULT_IGNORE_DIRS,
                   ignore_files |-> DEFAULT_IGNORE_FILES]
    /\ final_output = <<>>
    /\ save_content = <<>>
    /\ deleted = 0

toolFrame == <<selVars, matchVars, readVars, tree_structure, project_name,
               defaults, final_output, save_content, deleted>>

(***************************************************************************)
(* FileOperationsTool._delete_file_folder.  A path is the sequence of the  *)
(* characters typed; what exists on disk is a set of nodes, each named by  *)
(* the sequence of its components below the filesystem root.  The working  *)
(* directory is /w and holds a file f and a directory w; the home          *)
(* directory is /h and holds a file f.                                     *)
(***************************************************************************)
MaxTyped == 3

PathChars == {"/", ".", "w", "h", "f", " "}

TypedPaths == SeqsUpTo(PathChars, MaxTyped)

ForceAnswers == {"YES", "yes", ""}

RootNode == <<>>

CwdNode == << <<"w">> >>

HomeNode == << <<"h">> >>

OpsFileNodes == {<< <<"w">>, <<"f">> >>, << <<"h">>, <<"f">> >>}

OpsDirNodes == {CwdNode, HomeNode, << <<"w">>, <<"w">> >>}

DiskAtStart == OpsFileNodes \cup OpsDirNodes

\* os.getcwd() and get_project_path(): the working directory, as the
\* operating system spells it.
Getcwd == <<"/", "w">>

\* os.path.expanduser("~")
HomeDir == <<"/", "h">>

\* os.path.isabs on POSIX
IsAbs(s) == s # <<>> /\ Head(s) = "/"

\* os.path.join(a, b) on POSIX
PathJoin(a, b) ==
    IF IsAbs(b) THEN b
    ELSE IF a = <<>> \/ a[Len(a)] = "/" THEN a \o b
    ELSE a \o <<"/">> \o b

\* Path resolution by the operating system: empty components and "." stay
\* where they are, ".." goes to the parent (the root is its own parent), a
\* component below a file or below a missing node does not resolve.  The
\* result is the set holding the node reached, empty when there is none.
RECURSIVE Walk(_, _, _)
Walk(exists, at, parts) ==
    IF at # RootNode /\ at \notin exists THEN {}
    ELSE IF parts = <<>> THEN {at}
    ELSE IF at \in OpsFileNodes THEN {}
    ELSE LET c == Head(parts)
         IN  IF c \in {<<>>, <<".">>} THEN Walk(exists, at, Tail(parts))
             ELSE IF c = <<".", ".">>
             THEN Walk(exists, SubSeq(at, 1, Len(at) - 1), Tail(parts))
             ELSE Walk(exists, Append(at, c), Tail(parts))

PathExists(exists, path) ==
    IF IsAbs(path) THEN Walk(exists, RootNode, Split(path, "/")) ELSE {}

\* The node and everything below it.
Under(exists, n) ==
    {m \in exists : Len(m) >= Len(n) /\ SubSeq(m, 1, Len(n)) = n}

\* Line 284
important_paths == {HomeDir, <<"/">>, <<"C", ":", "\\">>, Getcwd}

\* Line 285: any(target == p for p in important_paths)
IsImportant(target) == target \in important_paths

\* Lines 293-294.  os.remove deletes the file or raises; shutil.rmtree with
\* ignore_errors=True deletes what it can and reports nothing: the whole
\* tree, everything below the directory, or nothing.  The directory itself
\* cannot go when the path ends in "." or "..", or is the root.
DeleteOutcomes(target, n) ==
    IF n \in OpsFileNodes THEN {"removed", "raises"}
    ELSE LET last == Split(target, "/")[Len(Split(target, "/"))]
         IN  IF n = RootNode \/ last \in {<<".">>, <<".", ".">>}
             THEN {"emptied", "kept"}
             ELSE {"removed", "emptied", "kept"}

AfterDelete(exists, n, outcome) ==
    CASE outcome = "removed" -> exists \ Under(exists, n)
      [] outcome = "emptied" -> exists \ (Under(exists, n) \ {n})
      [] OTHER -> exists

InitDelete ==
    /\ pc = "delete"
    /\ ToolIdle
    /\ answers = [target |-> <<>>, force |-> "unasked", confirm |-> "unasked"]
    /\ events = <<>>
    /\ disk = DiskAtStart

\* Lines 266-297, the whole handler.
DeleteFileFolder ==
    /\ pc = "delete"
    /\ \E typed \in TypedPaths :
         LET target == PathJoin(Getcwd, Strip(typed))
             found == PathExists(disk, target)
         IN  IF found = {}
             THEN /\ answers' = [answers EXCEPT !.target = typed]
                  /\ events' = Append(events, "not_found")
                  /\ disk' = disk
             ELSE LET n == CHOOSE x \in found : TRUE
                      danger == IsImportant(target)
                  IN  \E force \in IF danger THEN ForceAnswers ELSE {"unasked"} :
                        IF danger /\ force # "YES"
                        THEN /\ answers' = [answers EXCEPT !.target = typed,
                                                           !.force = force]
                             /\ events' = Append(events, "danger")
                             /\ disk' = disk
                        ELSE \E confirm \in {"yes", "no"} :
                               /\ answers' = [target |-> typed, force |-> force,
                                              confirm |-> confirm]
                               /\ IF confirm = "no"
                                  THEN /\ events' = events
                                       /\ disk' = disk
                                  ELSE \E outcome \in DeleteOutcomes(target, n) :
                                         /\ disk' = AfterDelete(disk, n, outcome)
                                         /\ events' = Append(events,
                                               IF outcome = "raises"
                                               THEN "failed" ELSE "deleted")
    /\ pc' = "end"
    /\ UNCHANGED toolFrame

NextDelete == DeleteFileFolder

SpecDelete == InitDelete /\ [][NextDelete]_vars

(***************************************************************************)
(* What the delete-guard claim speaks about.                               *)
(***************************************************************************)
\* The node the typed path denotes before the handler runs.
Denoted == PathExists(DiskAtStart, PathJoin(Getcwd, Strip(answers.target)))

CriticalNodes == {HomeNode, RootNode, CwdNode}

DiskChanged == disk # DiskAtStart

\* C24: after the delete handler the filesystem has changed only if the
\* typed path existed and the final confirmation was answered yes, only the
\* target and what lies below it can be gone, and when the path denotes the
\* home directory, the filesystem root or the working directory nothing is
\* gone unless YES was typed first.
C24_DeleteGuard ==
    pc = "end" =>
        /\ DiskChanged =>
              /\ Denoted # {}
              /\ answers.confirm = "yes"
              /\ \A n \in Denoted : DiskAtStart \ disk \subseteq Under(DiskAtStart, n)
        /\ (Denoted \cap CriticalNodes # {} /\ answers.force # "YES") => ~DiskChanged

\* The part of C24 about existence and the final confirmation alone.
DeleteNeedsConfirm ==
    (pc = "end" /\ DiskChanged) => (Denoted # {} /\ answers.confirm = "yes")

(***************************************************************************)
(* EnvTool: _create_env_file, _delete_env_file and _delete_venv.  The      *)
(* working directory holds a .env file (absent, with the user's content,   *)
(* or with the template) and up to four environment directories (absent,   *)
(* whole, or partly removed).  answers and events describe the latest      *)
(* call.                                                                   *)
(***************************************************************************)
\* Line 130: common_venvs = ['.venv', 'venv', 'env']
common_venvs == << <<".", "v", "e", "n", "v">>, <<"v", "e", "n", "v">>, <<"e", "n", "v">> >>

\* A directory with a name of the user's own.
CustomVenv == <<"m">>

VenvDirs == SeqRange(common_venvs) \cup {CustomVenv}

CustomNames == {<<>>, <<" ">>, CustomVenv, <<" ", "m", " ">>, <<"q">>}

ChoiceAnswers ==
    { <<"1">>, <<"2">>, <<"3">>, <<"4">>, <<"0">>, <<" ", "2">>, <<"y">>, <<>> }

DigitChars == <<"0", "1", "2", "3", "4", "5", "6", "7", "8", "9">>

\* str.isdigit() for the characters of the model.
IsDigit(s) == s # <<>> /\ \A i \in 1..Len(s) : s[i] \in SeqRange(DigitChars)

\* int(s) for a string of digits.
RECURSIVE IntOf(_)
IntOf(s) ==
    IF s = <<>> THEN 0
    ELSE LET c == s[Len(s)]
             v == CHOOSE k \in 0..9 : DigitChars[k + 1] = c
         IN  IntOf(SubSeq(s, 1, Len(s) - 1)) * 10 + v

\* console.input(...).lower() != 'y' cancels (lines 175-176, 198-199, 295-296).
EnvConsent(answer) == Lower(answer) = <<"y">>

\* Lines 130-170 of _delete_venv: the environments found, and the one the
\* handler settles on (none when it returns before the confirmation).
FoundVenvs(d, custom) ==
    LET Exists(n) == d.venv[n] # "absent"
        common == SelectSeq(common_venvs, Exists)
        name == Strip(custom)
    IN  IF common # <<>> THEN common
        ELSE IF name \in VenvDirs /\ Exists(name) THEN <<name>>
        ELSE <<>>

VenvTarget(found, choice) ==
    IF found = <<>> THEN <<>>
    ELSE IF Len(found) = 1 THEN found
    ELSE IF IsDigit(Strip(choice)) /\ IntOf(Strip(choice)) \in 1..Len(found)
    THEN <<found[IntOf(Strip(choice))]>>
    ELSE <<>>

\* shutil.rmtree(venv_path, ignore_errors=True): the tree goes, or a part
\* of it, or nothing, and no error is raised.
RmtreeOutcomes == {"removed", "partial", "kept"}

AfterRmtree(state, outcome) ==
    CASE outcome = "removed" -> "absent"
      [] outcome = "partial" -> "partial"
      [] OTHER -> state

InitEnv ==
    /\ pc = "env"
    /\ ToolIdle
    /\ answers = [op |-> "none", target |-> <<>>, asked |-> FALSE, confirm |-> <<>>]
    /\ events = <<>>
    /\ disk \in [dotenv : {"absent", "old"}, venv : [VenvDirs -> {"absent", "whole"}]]

\* Lines 188-262.
CreateEnvFile ==
    /\ pc = "env"
    /\ IF disk.dotenv # "absent"
       THEN \E overwrite \in ConfirmAnswers :
              /\ answers' = [op |-> "create_env", target |-> <<>>,
                             asked |-> TRUE, confirm |-> overwrite]
              /\ IF ~EnvConsent(overwrite)
                 THEN /\ events' = <<"cancelled">>
                      /\ disk' = disk
                 ELSE \E outcome \in {"written", "raises"} :
                        /\ disk' = IF outcome = "written"
                                   THEN [disk EXCEPT !.dotenv = "template"] ELSE disk
                        /\ events' = <<IF outcome = "written" THEN "created" ELSE "failed">>
       ELSE /\ answers' = [op |-> "create_env", target |-> <<>>,
                           asked |-> FALSE, confirm |-> <<>>]
            /\ \E outcome \in {"written", "raises"} :
                 /\ disk' = IF outcome = "written"
                            THEN [disk EXCEPT !.dotenv = "template"] ELSE disk
                 /\ events' = <<IF outcome = "written" THEN "created" ELSE "failed">>
    /\ UNCHANGED <<pc, toolFrame>>

\* Lines 264-306.
DeleteEnvFile ==
    /\ pc = "env"
    /\ IF disk.dotenv = "absent"
       THEN /\ answers' = [op |-> "delete_env", target |-> <<>>,
                           asked |-> FALSE, confirm |-> <<>>]
            /\ events' = <<"not_found">>
            /\ disk' = disk
       ELSE \E confirm \in ConfirmAnswers :
              /\ answers' = [op |-> "delete_env", target |-> <<>>,
                             asked |-> TRUE, confirm |-> confirm]
              /\ IF ~EnvConsent(confirm)
                 THEN /\ events' = <<"cancelled">>
                      /\ disk' = disk
                 ELSE \E outcome \in {"removed", "raises"} :
                        /\ disk' = IF outcome = "removed"
                                   THEN [disk EXCEPT !.dotenv = "absent"] ELSE disk
                        /\ events' = <<IF outcome = "removed" THEN "deleted" ELSE "failed">>
    /\ UNCHANGED <<pc, toolFrame>>

\* Lines 121-186.
DeleteVenv ==
    /\ pc = "env"
    /\ \E custom \in IF FoundVenvs(disk, <<>>) = <<>> THEN CustomNames ELSE {<<>>} :
         LET found == FoundVenvs(disk, custom)
         IN  \E choice \in IF Len(found) > 1 THEN ChoiceAnswers ELSE {<<>>} :
               LET target == VenvTarget(found, choice)
               IN  IF target = <<>>
                   THEN /\ answers' = [op |-> "delete_venv", target |-> <<>>,
                                       asked |-> FALSE, confirm |-> <<>>]
                        /\ events' = <<IF found = <<>> THEN "not_found" ELSE "invalid">>
                        /\ disk' = disk
                   ELSE \E confirm \in ConfirmAnswers :
                          /\ answers' = [op |-> "delete_venv", target |-> target,
                                         asked |-> TRUE, confirm |-> confirm]
                          /\ IF ~EnvConsent(confirm)
                             THEN /\ events' = <<"cancelled">>
                                  /\ disk' = disk
                             ELSE \E outcome \in RmtreeOutcomes :
                                    /\ disk' = [disk EXCEPT !.venv[target[1]] =
                                                   AfterRmtree(@, outcome)]
                                    /\ events' = <<"deleted">>
    /\ UNCHANGED <<pc, toolFrame>>

NextEnv ==
    \/ CreateEnvFile
    \/ DeleteEnvFile
    \/ DeleteVenv

SpecEnv == InitEnv /\ [][NextEnv]_vars

(***************************************************************************)
(* What the consent claim speaks about.                                    *)
(***************************************************************************)
\* The latest call asked for its confirmation and got y (as the code reads
\* it, in either case).
Consented == answers.asked /\ EnvConsent(answers.confirm)

\* What the latest call was to remove is gone, or .env holds the template.
TargetGone ==
    CASE answers.op = "create_env" -> disk.dotenv = "template"
      [] answers.op = "delete_env" -> disk.dotenv = "absent"
      [] answers.op = "delete_venv" ->
            \A i \in 1..Len(answers.target) : disk.venv[answers.target[i]] = "absent"
      [] OTHER -> TRUE

\* A call that works on something that exists: an overwrite of .env, a
\* deletion of .env, a deletion of an environment.
DestructiveCall ==
    \/ answers'.op = "create_env" /\ disk.dotenv # "absent"
    \/ answers'.op = "delete_env"
    \/ answers'.op = "delete_venv"

\* C23: a destructive call of the environment manager that did not get y at
\* its confirmation prompt leaves the filesystem as it was, and one that got
\* y leaves the .env file or the environment directory gone, or .env
\* replaced by the template.
C23_ConsentDecides ==
    [][/\ (DestructiveCall /\ ~Consented') => disk' = disk
       /\ Consented' => TargetGone']_vars

\* The first half of C23 alone: nothing changes without the y.
NoChangeWithoutConsent ==
    [][(DestructiveCall /\ ~Consented') => disk' = disk]_vars

(***************************************************************************)
(* The menu loops: FileOperationsTool.run, EnvTool.run and DjangoTool.run. *)
(* One action is one turn of `while True`.  events is the log of what the  *)
(* loop did, an entry being [kind, arg]: the menu shown, the selection     *)
(* read, the operation called, a raise out of it, the invalid-option       *)
(* line, the pause.  An operation returns or raises; nothing in the loops  *)
(* catches what it raises.                                                 *)
(***************************************************************************)
MaxTurns == 3

Entry(kind, arg) == [kind |-> kind, arg |-> arg]

Turns == Cardinality({i \in 1..Len(events) : events[i].kind = "menu"})

OpOutcomes == {"returns", "raises"}

\* Prompt.ask(..., choices=[str(i) for i in range(1, 9)]) hands back one of
\* its choices and nothing else.
FileOpsChoices == {<<"1">>, <<"2">>, <<"3">>, <<"4">>, <<"5">>, <<"6">>, <<"7">>, <<"8">>}

\* choices=[str(i) for i in range(1, 8)]
DjangoChoices == FileOpsChoices \ {<<"8">>}

\* What may be typed at console.input of the environment menu.
EnvTyped ==
    DjangoChoices \cup {<<"8">>, <<>>, <<" ", "7">>, <<" ", "2", " ">>, <<"x">>, <<"7", "7">>}

\* file_ops.py lines 45-60
FileOpsMenu(choice) ==
    CASE choice = <<"1">> -> "_list_project_files"
      [] choice = <<"2">> -> "_copy_file_folder"
      [] choice = <<"3">> -> "_move_file_folder"
      [] choice = <<"4">> -> "_delete_file_folder"
      [] choice = <<"5">> -> "_file_info"
      [] choice = <<"6">> -> "_create_folder"
      [] choice = <<"7">> -> "_create_file"
      [] choice = <<"8">> -> "break"
      [] OTHER -> "nothing"

\* env_manager.py lines 36-51
EnvMenu(choice) ==
    CASE choice = <<"1">> -> "_create_venv"
      [] choice = <<"2">> -> "_delete_venv"
      [] choice = <<"3">> -> "_create_env_file"
      [] choice = <<"4">> -> "_delete_env_file"
      [] choice = <<"5">> -> "_list_env_vars"
      [] choice = <<"6">> -> "_check_python_env"
      [] choice = <<"7">> -> "break"
      [] OTHER -> "invalid"

\* django_manager.py lines 41-54
DjangoMenu(choice) ==
    CASE choice = <<"1">> -> "create_project"
      [] choice = <<"2">> -> "check_django"
      [] choice = <<"3">> -> "create_app"
      [] choice = <<"4">> -> "make_migrations"
      [] choice = <<"5">> -> "migrate"
      [] choice = <<"6">> -> "run_server"
      [] choice = <<"7">> -> "break"
      [] OTHER -> "nothing"

\* A pause after every turn of the Django menu, the exit included.
DjangoPausesAlways(choice, pause) == TRUE

\* django_manager.py line 56: if choice != "7" and pause
DjangoPauses(choice, pause) == choice # <<"7">> /\ pause

\* file_ops.py line 62: if choice != "8"
FileOpsPauses(choice) == choice # <<"8">>

\* env_manager.py line 53: if choice != "7"
EnvPauses(choice) == choice # <<"7">>

\* What one turn adds to the log after the selection, and where it leaves
\* the loop: went is what the if/elif chain settled on.
TurnLog(went, pauses, outcome) ==
    IF went = "break" THEN <<>>
    ELSE IF went = "invalid"
    THEN <<Entry("invalid", <<>>)>> \o (IF pauses THEN <<Entry("pause", <<>>)>> ELSE <<>>)
    ELSE IF went = "nothing"
    THEN IF pauses THEN <<Entry("pause", <<>>)>> ELSE <<>>
    ELSE IF outcome = "raises"
    THEN <<Entry("op", <<went>>), Entry("raise", <<>>)>>
    ELSE <<Entry("op", <<went>>)>> \o (IF pauses THEN <<Entry("pause", <<>>)>> ELSE <<>>)

TurnPc(went, outcome) ==
    IF went = "break" THEN "returned"
    ELSE IF went \notin {"invalid", "nothing"} /\ outcome = "raises" THEN "raised"
    ELSE "menu"

InitMenu ==
    /\ pc = "menu"
    /\ ToolIdle
    /\ answers \in [tool : {"file_ops", "env", "django"}, pause : BOOLEAN]
    /\ events = <<>>
    /\ disk = {}

\* file_ops.py lines 27-63
FileOpsTurn ==
    /\ pc = "menu"
    /\ answers.tool = "file_ops"
    /\ Turns < MaxTurns
    /\ \E choice \in FileOpsChoices :
         LET went == FileOpsMenu(choice)
         IN  \E outcome \in IF went = "break" THEN {"returns"} ELSE OpOutcomes :
               /\ events' = events \o <<Entry("menu", <<>>), Entry("select", choice)>>
                                   \o TurnLog(went, FileOpsPauses(choice), outcome)
               /\ pc' = TurnPc(went, outcome)
    /\ UNCHANGED <<answers, disk, toolFrame>>

\* env_manager.py lines 22-54
EnvTurn ==
    /\ pc = "menu"
    /\ answers.tool = "env"
    /\ Turns < MaxTurns
    /\ \E typed \in EnvTyped :
         LET choice == Strip(typed)
             went == EnvMenu(choice)
         IN  \E outcome \in IF went \in {"break", "invalid"} THEN {"returns"} ELSE OpOutcomes :
               /\ events' = events \o <<Entry("menu", <<>>), Entry("select", typed)>>
                                   \o TurnLog(went, EnvPauses(choice), outcome)
               /\ pc' = TurnPc(went, outcome)
    /\ UNCHANGED <<answers, disk, toolFrame>>

\* django_manager.py lines 24-57
DjangoTurn ==
    /\ pc = "menu"
    /\ answers.tool = "django"
    /\ Turns < MaxTurns
    /\ \E choice \in DjangoChoices :
         LET went == DjangoMenu(choice)
         IN  \E outcome \in IF went = "break" THEN {"returns"} ELSE OpOutcomes :
               /\ events' = events \o <<Entry("menu", <<>>), Entry("select", choice)>>
                                   \o TurnLog(went, DjangoPauses(choice, answers.pause), outcome)
               /\ pc' = TurnPc(went, outcome)
    /\ UNCHANGED <<answers, disk, toolFrame>>

NextMenu ==
    \/ FileOpsTurn
    \/ EnvTurn
    \/ DjangoTurn

SpecMenu == InitMenu /\ [][NextMenu]_vars

(***************************************************************************)
(* What the menu-loop claim speaks about.                                  *)
(***************************************************************************)
TurnStarts == {i \in 1..Len(events) : events[i].kind = "menu"}

\* The log of the turn that starts at position i.
TurnAt(i) ==
    LET later == {j \in TurnStarts : j > i}
        stop == IF later = {} THEN Len(events) + 1
                ELSE CHOOSE j \in later : \A k \in later : j <= k
    IN  SubSeq(events, i, stop - 1)

IsLastTurn(i) == \A j \in TurnStarts : j <= i

ExitOption == IF answers.tool = "file_ops" THEN <<"8">> ELSE <<"7">>

\* The options of the menu that call an operation.
OperationOptions ==
    IF answers.tool = "file_ops" THEN FileOpsChoices \ {<<"8">>} ELSE DjangoChoices \ {<<"7">>}

\* The selection as the loop compares it: the environment menu strips what
\* was typed.
Selection(t) == IF answers.tool = "env" THEN Strip(t[2].arg) ELSE t[2].arg

Kinds(t) == [k \in 1..Len(t) |-> t[k].kind]

PauseDue == answers.tool # "django" \/ answers.pause

\* The menu is shown again after the turn at i: another turn follows, or
\* the loop is back at its head.
MenuAgain(i) == ~IsLastTurn(i) \/ pc = "menu"

Raised(t) == t[Len(t)].kind = "raise"

MaxAbove == 5

\* Line 229: for _ in range(5)
SearchSteps == 5

\* How the subprocess of a call ends.
CommandOutcomes == {"succeeded", "failed", "not_started", "interrupted"}

\* Line 232: os.path.dirname(check_dir); the root is its own parent.
Dirname(dir) == IF dir = 0 THEN 0 ELSE dir - 1

\* Lines 226-236: the directory found, as a set (empty for None).
RECURSIVE FindFrom(_, _, _)
FindFrom(manage, check_dir, steps) ==
    IF steps = 0 THEN {}
    ELSE IF check_dir \in manage THEN {check_dir}
    ELSE IF Dirname(check_dir) = check_dir THEN {}
    ELSE FindFrom(manage, Dirname(check_dir), steps - 1)

FindDjangoProject(state) == FindFrom(state.manage, state.cwd, SearchSteps)

\* Lines 238-245: _run_command catches Exception, so a command that fails
\* or cannot be started gives (False, message); KeyboardInterrupt is not an
\* Exception and leaves the method as a raise.
RunCommandRaises(outcome) == outcome = "interrupted"

\* Lines 123-129, 157-163, 184-190: chdir, the command, chdir back, with
\* nothing between them that catches a raise.
ChdirAround(state, project_dir, outcome) ==
    IF RunCommandRaises(outcome)
    THEN [state EXCEPT !.cwd = project_dir]
    ELSE [state EXCEPT !.cwd = state.cwd]

InitDjango ==
    /\ pc = "django"
    /\ ToolIdle
    /\ answers = [op |-> "none", outcome |-> "none"]
    /\ events = <<>>
    /\ disk \in [cwd : 0..MaxAbove, manage : SUBSET (0..MaxAbove)]
    /\ \A d \in disk.manage : d <= disk.cwd

\* The body shared by create_app (lines 112-141) and make_migrations
\* (143-170): the search, the prompt, then the command between two chdirs.
CallAround(op) ==
    /\ pc = "django"
    /\ LET found == FindDjangoProject(disk)
       IN  IF found = {}
           THEN /\ answers' = [op |-> op, outcome |-> "none"]
                /\ events' = <<>>
                /\ disk' = disk
                /\ pc' = pc
           ELSE LET project_dir == CHOOSE d \in found : TRUE
                IN  \E outcome \in CommandOutcomes :
                      /\ answers' = [op |-> op, outcome |-> outcome]
                      /\ events' = <<project_dir>>
                      /\ disk' = ChdirAround(disk, project_dir, outcome)
                      /\ pc' = IF RunCommandRaises(outcome) THEN "raised" ELSE pc
    /\ UNCHANGED toolFrame

CreateApp == CallAround("create_app")

MakeMigrations == CallAround("make_migrations")

\* Lines 172-198: as above, behind Confirm.ask.
Migrate ==
    \/ /\ pc = "django"
       /\ FindDjangoProject(disk) # {}
       /\ answers' = [op |-> "migrate", outcome |-> "declined"]
       /\ events' = <<>>
       /\ UNCHANGED <<pc, disk, toolFrame>>
    \/ CallAround("migrate")

\* Lines 200-224: subprocess.run inside try / except KeyboardInterrupt /
\* except Exception / finally: os.chdir(original_dir).
RunServer ==
    /\ pc = "django"
    /\ LET found == FindDjangoProject(disk)
       IN  IF found = {}
           THEN /\ answers' = [op |-> "run_server", outcome |-> "none"]
                /\ events' = <<>>
           ELSE \E outcome \in CommandOutcomes :
                  /\ answers' = [op |-> "run_server", outcome |-> outcome]
                  /\ events' = <<CHOOSE d \in found : TRUE>>
    /\ disk' = disk
    /\ UNCHANGED <<pc, toolFrame>>

NextDjango ==
    \/ CreateApp
    \/ MakeMigrations
    \/ Migrate
    \/ RunServer

SpecDjango == InitDjango /\ [][NextDjango]_vars

(***************************************************************************)
(* What the working-directory claim speaks about.                          *)
(***************************************************************************)
\* A manage.py in the working directory or one of its four nearest
\* ancestors.
ManageNearby == \E d \in disk.manage : d <= disk.cwd /\ disk.cwd - d <= 4

\* C30: a call of create_app, make_migrations, migrate or run_server ends
\* with the working directory it started with, however its subprocess
\* ended; and with no manage.py in the working directory or its four
\* nearest ancestors it runs no command.
C30_CwdRestored ==
    [][/\ disk'.cwd = disk.cwd
       /\ ~ManageNearby => events' = <<>>]_vars

\* C30 for the calls that return: the working directory is the one the
\* call started with, and the search is the one the claim describes.
CwdRestoredOnReturn ==
    [][/\ pc' # "raised" => disk'.cwd = disk.cwd
       /\ ~ManageNearby => events' = <<>>
       /\ (ManageNearby /\ answers'.outcome \in CommandOutcomes) => events' # <<>>]_vars

====
